---------------------------- MODULE Spec2Model ----------------------------
(***************************************************************************)
(* Model of the shared C++ markup pipeline of react-native-fabric-rich-text *)
(*                                                                         *)
(*   markup -> normalizeInterTagWhitespace -> parseMarkupToSegments        *)
(*          -> buildAttributedString -> { fragments, linkUrls, label }     *)
(*                                                                         *)
(* A std::string is a sequence of bytes.  An ASCII byte is written as the  *)
(* one-character string holding it; any other byte is written as its two   *)
(* hexadecimal digits ("E2", "0B").  Positions are 1-based and 0 plays the  *)
(* part of std::string::npos.                                              *)
(***************************************************************************)
EXTENDS Integers, Sequences, FiniteSets, TLC

VARIABLES
    api,              \* entry point called: "parseMarkupToSegments" | "parseMarkupWithLinkUrls" |
                      \* "parseMarkupToAttributedString" |
                      \* "isAllowedUrlScheme" | "normalizeInterTagWhitespace" | "getMapBuffer" |
                      \* "libxml2StartElement" | "parseHtmlToSegments" (the other frontends)
                      \* | "DirectionContext" | "detectDirectionFromText"
                      \* | "parseHexColor" | "getStyleFromTagStyles" | "FabricHTMLTextShadowNode"
    markup,           \* the argument of the call
    url,              \* argument of a direct isAllowedUrlScheme call (api = "isAllowedUrlScheme")
    allowed,          \* its return value
    pc,               \* position of the call: "call", "normalize", "parse", "trim", "build", "done",
                      \* "text", "returned"
    src,              \* the string parseMarkupToSegments iterates over; in a direct call of
                      \* normalizeInterTagWhitespace, its argument and then its return value
    i,                \* loop index of parseMarkupToSegments (1-based)
    ps,               \* the locals of parseMarkupToSegments, segments included
    workingSegments,  \* buildAttributedString: the trimmed copy of the segments
    segIdx,           \* buildAttributedString: loop index (1-based)
    args,             \* the builder arguments of parseMarkupWithLinkUrls
    result,           \* AttributedStringResult: fragments, linkUrls, accessibilityLabel
    textState,        \* a FabricHTMLTextState of the Android component and the MapBuffer
                      \* getMapBuffer built from it
    attributed,       \* the AttributedString parseMarkupToAttributedString returned
    direction,        \* the WritingDirection detectDirectionFromText returned
    argb,             \* the int32_t parseHexColor returned
    richTagStyle,     \* the FabricRichTagStyle getStyleFromTagStyles returned
    node,             \* an Android FabricHTMLTextShadowNode: its props, its mutex, its cached
                      \* members, the state it published, and the threads calling
                      \* measureContent and layout on it
    hist              \* history of the run, read by the properties only

vars == <<api, markup, url, allowed, pc, src, i, ps, workingSegments, segIdx, args,
          result, textState, attributed, direction, argb, richTagStyle, node, hist>>

---------------------------------------------------------------------------
(* Bytes and strings *)

Str(s) == [k \in 1..Len(s) |-> SubSeq(s, k, k)]

UpperLetters == Str("ABCDEFGHIJKLMNOPQRSTUVWXYZ")
LowerLetters == Str("abcdefghijklmnopqrstuvwxyz")

\* std::tolower in the "C" locale
ToLower(c) ==
    IF \E k \in 1..26 : UpperLetters[k] = c
    THEN LowerLetters[CHOOSE k \in 1..26 : UpperLetters[k] = c]
    ELSE c

LowerStr(s) == [k \in 1..Len(s) |-> ToLower(s[k])]

\* std::isspace in the "C" locale: space, \t, \n, \v (0B), \f, \r
IsSpace(c) == c \in {" ", "\t", "\n", "0B", "\f", "\r"}

\* s.find(pat, from): first position >= from where pat occurs, 0 if none
Find(s, pat, from) ==
    LET hits == {k \in from..(Len(s) - Len(pat) + 1) :
                    SubSeq(s, k, k + Len(pat) - 1) = pat}
    IN IF hits = {} THEN 0 ELSE CHOOSE k \in hits : \A m \in hits : k <= m

\* s.find(c, from) for one byte
FindChar(s, c, from) ==
    LET hits == {k \in from..Len(s) : s[k] = c}
    IN IF hits = {} THEN 0 ELSE CHOOSE k \in hits : \A m \in hits : k <= m

\* s.rfind(pat, 0) == 0
StartsWith(s, pat) == Len(s) >= Len(pat) /\ SubSeq(s, 1, Len(pat)) = pat

\* s.substr(from): the suffix starting at position from
Suffix(s, from) == SubSeq(s, from, Len(s))

Last(s) == s[Len(s)]

RECURSIVE Flatten(_)
Flatten(ss) == IF ss = <<>> THEN <<>> ELSE Head(ss) \o Flatten(Tail(ss))

\* The state after the iterations lo..hi of a loop whose body takes the state st
\* at index k to Body(st, k).  The range is halved so that the evaluation depth
\* stays logarithmic; the comparison makes TLC finish the first half before it
\* starts the second.
RECURSIVE Loop(_, _, _, _)
Loop(Body(_, _), lo, hi, st) ==
    IF lo > hi THEN st
    ELSE IF lo = hi THEN Body(st, lo)
    ELSE LET mid  == (lo + hi) \div 2
             half == Loop(Body, lo, mid, st)
         IN  IF half = half THEN Loop(Body, mid + 1, hi, half) ELSE half

\* std::to_string of a non-negative int
RECURSIVE DecStr(_)
DecStr(n) ==
    IF n < 10 THEN <<Str("0123456789")[n + 1]>>
    ELSE DecStr(n \div 10) \o <<Str("0123456789")[(n % 10) + 1]>>

Spaces(n) == [k \in 1..n |-> " "]

\* UTF-8 literals of the source
FSI    == <<"E2", "81", "A8">>   \* U+2068
PDI    == <<"E2", "81", "A9">>   \* U+2069
RLO    == <<"E2", "80", "AE">>   \* U+202E
LRO    == <<"E2", "80", "AD">>   \* U+202D
PDF    == <<"E2", "80", "AC">>   \* U+202C
BULLET == <<"E2", "80", "A2">>   \* U+2022

---------------------------------------------------------------------------
(* MarkupSegmentParser.cpp: URL allowlist and attribute scanning *)

UrlTrimSet == {" ", "\t", "\n", "\r"}

isAllowedUrlSchemeNoLower(u) ==
    LET keep  == {k \in 1..Len(u) : u[k] \notin UrlTrimSet}
        start == IF keep = {} THEN 0 ELSE CHOOSE k \in keep : \A m \in keep : k <= m
        lowerUrl == IF start # 0 THEN Suffix(u, start) ELSE u
        colonPos == FindChar(lowerUrl, ":", 1)
        slashPos == FindChar(lowerUrl, "/", 1)
    IN  \/ StartsWith(lowerUrl, Str("http://"))
        \/ StartsWith(lowerUrl, Str("https://"))
        \/ StartsWith(lowerUrl, Str("mailto:"))
        \/ StartsWith(lowerUrl, Str("tel:"))
        \/ lowerUrl = <<>>
        \/ lowerUrl[1] = "/"
        \/ lowerUrl[1] = "#"
        \/ colonPos = 0
        \/ (slashPos # 0 /\ slashPos < colonPos)

isAllowedUrlScheme(u) ==
    LET lowered == LowerStr(u)
        \* find_first_not_of(" \t\n\r")
        keep  == {k \in 1..Len(lowered) : lowered[k] \notin UrlTrimSet}
        start == IF keep = {} THEN 0 ELSE CHOOSE k \in keep : \A m \in keep : k <= m
        lowerUrl == IF start # 0 THEN Suffix(lowered, start) ELSE lowered
        colonPos == FindChar(lowerUrl, ":", 1)
        slashPos == FindChar(lowerUrl, "/", 1)
    IN  IF \/ StartsWith(lowerUrl, Str("http://"))
           \/ StartsWith(lowerUrl, Str("https://"))
           \/ StartsWith(lowerUrl, Str("mailto:"))
           \/ StartsWith(lowerUrl, Str("tel:"))
        THEN TRUE
        ELSE IF lowerUrl = <<>> \/ lowerUrl[1] = "/" \/ lowerUrl[1] = "#"
        THEN TRUE
        ELSE IF colonPos = 0 \/ (slashPos # 0 /\ slashPos < colonPos)
        THEN TRUE
        ELSE FALSE

\* The value of a quoted attribute whose "name=" text is found in the tag
QuotedValue(fullTag, name) ==
    LET pos        == Find(fullTag, name, 1)
        valueStart == pos + Len(name)
        quote      == fullTag[valueStart]
        valueEnd   == FindChar(fullTag, quote, valueStart + 1)
    IN  IF pos = 0 THEN <<>>
        ELSE IF valueStart > Len(fullTag) THEN <<>>
        ELSE IF quote \in {"\"", "'"} /\ valueEnd # 0 /\ valueEnd > valueStart + 1
        THEN SubSeq(fullTag, valueStart + 1, valueEnd - 1)
        ELSE <<>>

extractHrefUrlUnchecked(fullTag) == QuotedValue(fullTag, Str("href="))

extractHrefUrl(fullTag) ==
    LET u == QuotedValue(fullTag, Str("href="))
    IN  IF u = <<>> THEN <<>>
        ELSE IF ~isAllowedUrlScheme(u) THEN <<>>
        ELSE u

extractDirAttr(fullTag) == QuotedValue(fullTag, Str("dir="))

getHeadingScale(tag) ==
    IF tag = Str("h1") THEN 200
    ELSE IF tag = Str("h2") THEN 150
    ELSE IF tag = Str("h3") THEN 117
    ELSE IF tag = Str("h4") THEN 100
    ELSE IF tag = Str("h5") THEN 83
    ELSE IF tag = Str("h6") THEN 67
    ELSE 100

---------------------------------------------------------------------------
(* UnicodeUtils.cpp *)

\* The bytes 32..126 in order (byte 96 is written "60")
AsciiPrintable ==
    <<" ", "!", "\"", "#", "$", "%", "&", "'", "(", ")", "*", "+", ",", "-", ".", "/">>
    \o Str("0123456789") \o <<":", ";", "<", "=", ">", "?", "@">>
    \o UpperLetters \o <<"[", "\\", "]", "^", "_", "60">>
    \o LowerLetters \o <<"{", "|", "}", "~">>

HexDigits == Str("0123456789ABCDEF")

HexVal(d) == (CHOOSE k \in 1..16 : HexDigits[k] = d) - 1

\* static_cast<unsigned char>(c)
Ord(c) ==
    IF c = "\t" THEN 9
    ELSE IF c = "\n" THEN 10
    ELSE IF c = "\f" THEN 12
    ELSE IF c = "\r" THEN 13
    ELSE IF Len(c) = 2 THEN 16 * HexVal(SubSeq(c, 1, 1)) + HexVal(SubSeq(c, 2, 2))
    ELSE 31 + (CHOOSE k \in 1..Len(AsciiPrintable) : AsciiPrintable[k] = c)

InRange(cp, lo, hi) == cp >= lo /\ cp <= hi

isStrongRTL(cp) ==
    \/ InRange(cp, 1424, 1535)     \* 0590-05FF
    \/ InRange(cp, 1536, 1791)     \* 0600-06FF
    \/ InRange(cp, 1872, 1919)     \* 0750-077F
    \/ InRange(cp, 2208, 2303)     \* 08A0-08FF
    \/ InRange(cp, 1792, 1871)     \* 0700-074F
    \/ InRange(cp, 1920, 1983)     \* 0780-07BF
    \/ InRange(cp, 1984, 2047)     \* 07C0-07FF
    \/ InRange(cp, 64285, 64335)   \* FB1D-FB4F
    \/ InRange(cp, 64336, 65023)   \* FB50-FDFF
    \/ InRange(cp, 65136, 65279)   \* FE70-FEFF

isStrongLTR(cp) ==
    \/ InRange(cp, 65, 90)
    \/ InRange(cp, 97, 122)
    \/ InRange(cp, 192, 591)       \* 00C0-024F
    \/ InRange(cp, 7680, 7935)     \* 1E00-1EFF
    \/ InRange(cp, 880, 1023)      \* 0370-03FF
    \/ InRange(cp, 1024, 1279)     \* 0400-04FF
    \/ InRange(cp, 4256, 4351)     \* 10A0-10FF

DetectFromFirstCodePoint(text, k) ==
    IF k > Len(text) THEN "LeftToRight"
    ELSE
      LET c == Ord(text[k])
          b(n) == Ord(text[k + n])
          Strong(cp) == IF isStrongRTL(cp) THEN "RightToLeft" ELSE "LeftToRight"
      IN  IF c < 128 THEN Strong(c)
          ELSE IF InRange(c, 192, 223) /\ k + 1 <= Len(text)
          THEN Strong((c % 32) * 64 + (b(1) % 64))
          ELSE IF InRange(c, 224, 239) /\ k + 2 <= Len(text)
          THEN Strong((c % 16) * 4096 + (b(1) % 64) * 64 + (b(2) % 64))
          ELSE "LeftToRight"

\* The while loop of detectDirectionFromText from byte position k (1-based)
RECURSIVE DetectFrom(_, _)
DetectFrom(text, k) ==
    IF k > Len(text) THEN "LeftToRight"
    ELSE
      LET c == Ord(text[k])
          b(n) == Ord(text[k + n])
          Strong(cp, next) ==
              IF isStrongRTL(cp) THEN "RightToLeft"
              ELSE IF isStrongLTR(cp) THEN "LeftToRight"
              ELSE DetectFrom(text, next)
      IN  IF c < 128 THEN Strong(c, k + 1)
          ELSE IF InRange(c, 192, 223)       \* (c & 0xE0) == 0xC0
          THEN IF k + 1 > Len(text) THEN "LeftToRight"
               ELSE Strong((c % 32) * 64 + (b(1) % 64), k + 2)
          ELSE IF InRange(c, 224, 239)       \* (c & 0xF0) == 0xE0
          THEN IF k + 2 > Len(text) THEN "LeftToRight"
               ELSE Strong((c % 16) * 4096 + (b(1) % 64) * 64 + (b(2) % 64), k + 3)
          ELSE IF InRange(c, 240, 247)       \* (c & 0xF8) == 0xF0
          THEN IF k + 3 > Len(text) THEN "LeftToRight"
               ELSE Strong((c % 8) * 262144 + (b(1) % 64) * 4096
                             + (b(2) % 64) * 64 + (b(3) % 64), k + 4)
          ELSE DetectFrom(text, k + 1)

detectDirectionFromText(text) == DetectFrom(text, 1)

---------------------------------------------------------------------------
(* DirectionContext.h / DirectionContext.cpp *)

InitDirectionContext ==
    [ baseDirection    |-> "Natural",
      currentDirection |-> "Natural",
      isolationDepth   |-> 0,
      overrideDepth    |-> 0,
      directionStack   |-> <<>>,
      isBdiStack       |-> <<>>,
      isBdoStack       |-> <<>> ]

enterElementBdiUncounted(dc, tag, dirAttr, textContent) ==
    LET isBdi    == tag = Str("bdi")
        isBdo    == tag = Str("bdo")
    IN  [ dc EXCEPT
            !.directionStack   = Append(@, dc.currentDirection),
            !.isBdiStack       = Append(@, isBdi),
            !.isBdoStack       = Append(@, isBdo),
            !.overrideDepth    = IF isBdo THEN @ + 1 ELSE @,
            !.currentDirection = IF LowerStr(dirAttr) = Str("rtl") THEN "RightToLeft"
                                 ELSE dc.currentDirection ]

enterElement(dc, tag, dirAttr, textContent) ==
    LET isBdi    == tag = Str("bdi")
        isBdo    == tag = Str("bdo")
        lowerDir == LowerStr(dirAttr)
        newDir   ==
            IF dirAttr # <<>>
            THEN IF lowerDir = Str("rtl") THEN "RightToLeft"
                 ELSE IF lowerDir = Str("ltr") THEN "LeftToRight"
                 ELSE IF lowerDir = Str("auto") /\ textContent # <<>>
                 THEN detectDirectionFromText(textContent)
                 ELSE dc.currentDirection
            ELSE IF isBdi /\ textContent # <<>>
                 THEN detectDirectionFromText(textContent)
                 ELSE dc.currentDirection
    IN  [ dc EXCEPT
            !.directionStack   = Append(@, dc.currentDirection),
            !.isBdiStack       = Append(@, isBdi),
            !.isBdoStack       = Append(@, isBdo),
            !.isolationDepth   = IF isBdi THEN @ + 1 ELSE @,
            !.overrideDepth    = IF isBdo THEN @ + 1 ELSE @,
            !.currentDirection = newDir ]

exitElementKeepsDirection(dc, tag) ==
    IF dc.directionStack = <<>> THEN dc
    ELSE [ dc EXCEPT
            !.isolationDepth   = IF dc.isBdiStack # <<>> /\ Last(dc.isBdiStack)
                                 THEN @ - 1 ELSE @,
            !.isBdiStack       = IF @ # <<>> THEN SubSeq(@, 1, Len(@) - 1) ELSE @,
            !.overrideDepth    = IF dc.isBdoStack # <<>> /\ Last(dc.isBdoStack)
                                 THEN @ - 1 ELSE @,
            !.isBdoStack       = IF @ # <<>> THEN SubSeq(@, 1, Len(@) - 1) ELSE @,
            !.directionStack   = SubSeq(@, 1, Len(@) - 1) ]

exitElement(dc, tag) ==
    IF dc.directionStack = <<>> THEN dc
    ELSE [ dc EXCEPT
            !.isolationDepth   = IF dc.isBdiStack # <<>> /\ Last(dc.isBdiStack)
                                 THEN @ - 1 ELSE @,
            !.isBdiStack       = IF @ # <<>> THEN SubSeq(@, 1, Len(@) - 1) ELSE @,
            !.overrideDepth    = IF dc.isBdoStack # <<>> /\ Last(dc.isBdoStack)
                                 THEN @ - 1 ELSE @,
            !.isBdoStack       = IF @ # <<>> THEN SubSeq(@, 1, Len(@) - 1) ELSE @,
            !.currentDirection = Last(dc.directionStack),
            !.directionStack   = SubSeq(@, 1, Len(@) - 1) ]

getEffectiveDirection(dc) == dc.currentDirection
isIsolated(dc) == dc.isolationDepth > 0
isOverride(dc) == dc.overrideDepth > 0

---------------------------------------------------------------------------
(* TextNormalizer.cpp *)

BLOCK_LEVEL_TAGS ==
    { Str("p"), Str("div"), Str("h1"), Str("h2"), Str("h3"), Str("h4"), Str("h5"),
      Str("h6"), Str("ul"), Str("ol"), Str("li"), Str("blockquote"), Str("pre"),
      Str("hr"), Str("br"), Str("table"), Str("thead"), Str("tbody"), Str("tr"),
      Str("th"), Str("td"), Str("header"), Str("footer"), Str("section"),
      Str("article"), Str("nav"), Str("aside") }

INLINE_FORMATTING_TAGS ==
    { Str("strong"), Str("b"), Str("em"), Str("i"), Str("u"), Str("s"), Str("mark"),
      Str("small"), Str("sub"), Str("sup"), Str("code"), Str("span"), Str("a"),
      Str("bdi"), Str("bdo") }

isBlockLevelTag(tag) == tag \in BLOCK_LEVEL_TAGS

isInlineFormattingTag(tag) == tag \in INLINE_FORMATTING_TAGS

NormalizeCharOneSpace(html, n, k) ==
    LET c == html[k]
        stops  == {m \in (k + 2)..Len(html) : html[m] = ">" \/ IsSpace(html[m])}
        tagEnd == IF stops = {} THEN Len(html) + 1
                  ELSE CHOOSE m \in stops : \A q \in stops : m <= q
        closed == IF k + 1 <= Len(html) /\ html[k + 1] = "/"
                  THEN LowerStr(SubSeq(html, k + 2, tagEnd - 1))
                  ELSE <<>>
    IN  IF n.beforeFirstTag /\ IsSpace(c) THEN n
        ELSE IF c = "<"
        THEN [ result          |-> Append(n.result, c),
               afterBlockClose |-> FALSE,
               beforeFirstTag  |-> FALSE,
               lastClosedTag   |-> closed ]
        ELSE IF c = ">"
        THEN [ n EXCEPT !.result = Append(@, c),
                        !.afterBlockClose = n.lastClosedTag # <<>>
                                            /\ isBlockLevelTag(n.lastClosedTag) ]
        ELSE IF n.afterBlockClose /\ IsSpace(c) THEN [ n EXCEPT !.afterBlockClose = FALSE ]
        ELSE [ n EXCEPT !.result = Append(@, c),
                        !.beforeFirstTag = FALSE,
                        !.afterBlockClose = FALSE ]

\* One iteration of the for loop of normalizeInterTagWhitespace, at position k;
\* n holds the locals result, afterBlockClose, beforeFirstTag and lastClosedTag
NormalizeChar(html, n, k) ==
    LET c == html[k]
        stops  == {m \in (k + 2)..Len(html) : html[m] = ">" \/ IsSpace(html[m])}
        tagEnd == IF stops = {} THEN Len(html) + 1
                  ELSE CHOOSE m \in stops : \A q \in stops : m <= q
        closed == IF k + 1 <= Len(html) /\ html[k + 1] = "/"
                  THEN LowerStr(SubSeq(html, k + 2, tagEnd - 1))
                  ELSE <<>>
    IN  IF n.beforeFirstTag /\ IsSpace(c) THEN n
        ELSE IF c = "<"
        THEN [ result          |-> Append(n.result, c),
               afterBlockClose |-> FALSE,
               beforeFirstTag  |-> FALSE,
               lastClosedTag   |-> closed ]
        ELSE IF c = ">"
        THEN [ n EXCEPT !.result = Append(@, c),
                        !.afterBlockClose = n.lastClosedTag # <<>>
                                            /\ isBlockLevelTag(n.lastClosedTag) ]
        ELSE IF n.afterBlockClose /\ IsSpace(c) THEN n
        ELSE [ n EXCEPT !.result = Append(@, c),
                        !.beforeFirstTag = FALSE,
                        !.afterBlockClose = FALSE ]

normalizeInterTagWhitespace(html) ==
    LET Body(n, k) == NormalizeChar(html, n, k)
    IN  Loop(Body, 1, Len(html),
             [ result |-> <<>>, afterBlockClose |-> FALSE,
               beforeFirstTag |-> TRUE, lastClosedTag |-> <<>> ]).result

isParagraphBreak(text) ==
    /\ \A k \in 1..Len(text) : ~(text[k] # "\n" /\ ~IsSpace(text[k]))
    /\ text # <<>>

\* The second loop of normalizeSegmentText from position k, with the locals
\* result, lastWasSpace, hasContent
RECURSIVE NormalizeSegmentFrom(_, _, _, _, _)
NormalizeSegmentFrom(text, k, res, lastWasSpace, hasContent) ==
    IF k > Len(text) THEN res
    ELSE
      LET c == text[k]
      IN  IF IsSpace(c)
          THEN IF c = "\n"
               THEN IF hasContent
                    THEN NormalizeSegmentFrom(text, k + 1, Append(res, "\n"), FALSE, hasContent)
                    ELSE NormalizeSegmentFrom(text, k + 1, res, lastWasSpace, hasContent)
               ELSE IF ~lastWasSpace
                    THEN NormalizeSegmentFrom(text, k + 1, Append(res, " "), TRUE, hasContent)
                    ELSE NormalizeSegmentFrom(text, k + 1, res, lastWasSpace, hasContent)
          ELSE NormalizeSegmentFrom(text, k + 1, Append(res, c), FALSE, TRUE)

normalizeSegmentText(text, preserveNewlines, preserveLeadingSpace) ==
    IF preserveNewlines
    THEN SelectSeq(text, LAMBDA c : c = "\n")
    ELSE NormalizeSegmentFrom(text, 1, <<>>, ~preserveLeadingSpace, preserveLeadingSpace)

---------------------------------------------------------------------------
(* MarkupSegmentParser.cpp: parseMarkupToSegments *)

HeadingTags == { Str("h1"), Str("h2"), Str("h3"), Str("h4"), Str("h5"), Str("h6") }

\* The block tags the segment parser opens and closes
ParserBlockTags == HeadingTags \cup { Str("p"), Str("div") }

InitParser ==
    [ currentText          |-> <<>>,
      currentScale         |-> 100,
      currentBold          |-> FALSE,
      currentItalic        |-> FALSE,
      currentUnderline     |-> FALSE,
      currentStrikethrough |-> FALSE,
      currentLink          |-> FALSE,
      currentParentTag     |-> <<>>,
      currentLinkUrl       |-> <<>>,
      nextFollowsInline    |-> FALSE,
      tagStack             |-> <<>>,
      listStack            |-> <<>>,
      linkUrlStack         |-> <<>>,
      linkDepth            |-> 0,
      dirContext           |-> InitDirectionContext,
      inTag                |-> FALSE,
      inScript             |-> FALSE,
      inStyle              |-> FALSE,
      tagName              |-> <<>>,
      segments             |-> <<>> ]

flushSegmentNoPush(s, closingInlineElement) ==
    [ s EXCEPT !.currentText = <<>>, !.nextFollowsInline = closingInlineElement ]

flushSegment(s, closingInlineElement) ==
    IF s.currentText # <<>>
    THEN [ s EXCEPT
             !.segments = Append(@,
                 [ text                 |-> s.currentText,
                   fontScale            |-> s.currentScale,
                   isBold               |-> s.currentBold,
                   isItalic             |-> s.currentItalic,
                   isUnderline          |-> s.currentUnderline,
                   isStrikethrough      |-> s.currentStrikethrough,
                   isLink               |-> s.currentLink,
                   followsInlineElement |-> s.nextFollowsInline,
                   parentTag            |-> s.currentParentTag,
                   linkUrl              |-> s.currentLinkUrl,
                   writingDirection     |-> getEffectiveDirection(s.dirContext),
                   isBdiIsolated        |-> isIsolated(s.dirContext),
                   isBdoOverride        |-> isOverride(s.dirContext) ]),
             !.currentText = <<>>,
             !.nextFollowsInline = closingInlineElement ]
    ELSE [ s EXCEPT !.nextFollowsInline = closingInlineElement ]

IsHeadingTag(tag) ==
    tag[1] = "h" /\ Len(tag) = 2 /\ tag[2] \in {"1", "2", "3", "4", "5", "6"}

\* The for loop of updateStyleFromStack over tagStack[k..]; st holds the flags
RECURSIVE StyleWalk(_, _, _, _)
StyleWalk(tags, k, linkDepth, st) ==
    IF k > Len(tags) THEN st
    ELSE
      LET tag == tags[k]
      IN  StyleWalk(tags, k + 1, linkDepth,
            [ currentScale         |-> IF IsHeadingTag(tag) THEN getHeadingScale(tag)
                                       ELSE st.currentScale,
              currentBold          |-> st.currentBold \/ IsHeadingTag(tag)
                                       \/ tag = Str("strong") \/ tag = Str("b"),
              currentItalic        |-> st.currentItalic \/ tag = Str("em") \/ tag = Str("i"),
              currentUnderline     |-> st.currentUnderline \/ tag = Str("u")
                                       \/ (tag = Str("a") /\ linkDepth > 0),
              currentStrikethrough |-> st.currentStrikethrough \/ tag = Str("s"),
              currentParentTag     |-> IF isInlineFormattingTag(tag) THEN tag
                                       ELSE st.currentParentTag ])

updateStyleFromStack(s) ==
    LET st == StyleWalk(s.tagStack, 1, s.linkDepth,
                [ currentScale |-> 100, currentBold |-> FALSE, currentItalic |-> FALSE,
                  currentUnderline |-> FALSE, currentStrikethrough |-> FALSE,
                  currentParentTag |-> <<>> ])
    IN  [ s EXCEPT
            !.currentScale         = st.currentScale,
            !.currentBold          = st.currentBold,
            !.currentItalic        = st.currentItalic,
            !.currentUnderline     = st.currentUnderline,
            !.currentStrikethrough = st.currentStrikethrough,
            !.currentLink          = s.linkDepth > 0,
            !.currentLinkUrl       = IF s.linkUrlStack = <<>> THEN <<>>
                                     ELSE Last(s.linkUrlStack),
            !.currentParentTag     = st.currentParentTag ]

\* One iteration of the for loop of extractTextForAutoDetection, at position j;
\* st holds the locals and whether the loop has been left by its break
AutoTextChar(html, closingPattern, st, j) ==
    LET ch == html[j]
        remaining == SubSeq(html, j,
                       IF j + Len(closingPattern) <= Len(html)
                       THEN j + Len(closingPattern) ELSE Len(html))
        isClose == StartsWith(LowerStr(remaining), closingPattern)
    IN  IF st.broken THEN st
        ELSE IF ch = "<"
        THEN IF isClose /\ st.nestedDepth = 0
             THEN [ st EXCEPT !.inNestedTag = TRUE, !.broken = TRUE ]
             ELSE [ st EXCEPT !.inNestedTag = TRUE,
                              !.nestedDepth = IF isClose THEN @ - 1 ELSE @ ]
        ELSE IF ch = ">" THEN [ st EXCEPT !.inNestedTag = FALSE ]
        ELSE IF ~st.inNestedTag THEN [ st EXCEPT !.textContent = Append(@, ch) ]
        ELSE st

extractTextForAutoDetection(html, startPos, tagToClose) ==
    LET closingPattern == Str("</") \o tagToClose
        Body(st, j) == AutoTextChar(html, closingPattern, st, j)
    IN  Loop(Body, startPos, Len(html),
             [ textContent |-> <<>>, inNestedTag |-> FALSE, nestedDepth |-> 0,
               broken |-> FALSE ]).textContent

\* lowerTag cut at the first space
LowerTagOf(tagName) ==
    LET lowerTag == LowerStr(tagName)
        spacePos == FindChar(lowerTag, " ", 1)
    IN  IF spacePos # 0 THEN SubSeq(lowerTag, 1, spacePos - 1) ELSE lowerTag

IsClosingOf(tagName) ==
    LET lowerTag == LowerTagOf(tagName) IN lowerTag # <<>> /\ lowerTag[1] = "/"

CleanTagOf(tagName) ==
    IF IsClosingOf(tagName) THEN Tail(LowerTagOf(tagName)) ELSE LowerTagOf(tagName)

Pop(stack) == SubSeq(stack, 1, Len(stack) - 1)

\* isClosing && (p | div | h1..h6)
BlockClose(s, cleanTag) ==
    LET s1 == flushSegment([s EXCEPT !.currentText = Append(@, "\n")], FALSE)
        s2 == IF s1.tagStack # <<>> /\ Last(s1.tagStack) = cleanTag
              THEN updateStyleFromStack(
                     [ s1 EXCEPT !.tagStack = Pop(@),
                                 !.dirContext = exitElement(@, cleanTag) ])
              ELSE s1
    IN  [ s2 EXCEPT !.linkDepth = 0, !.linkUrlStack = <<>> ]

BlockOpenNoStyle(s, cleanTag, html, gt) ==
    LET s1 == flushSegment(s, FALSE)
    IN  [ s1 EXCEPT !.tagStack = Append(@, cleanTag),
                    !.dirContext = enterElement(@, cleanTag, <<>>, <<>>) ]

BlockOpenWithoutEnter(s, cleanTag, html, gt) ==
    LET s1 == flushSegment(s, FALSE)
    IN  updateStyleFromStack([ s1 EXCEPT !.tagStack = Append(@, cleanTag) ])

\* !isClosing && (h1..h6 | p | div); gt is the position of the '>'
BlockOpen(s, cleanTag, html, gt) ==
    LET s1 == flushSegment(s, FALSE)
        dirAttr == extractDirAttr(s.tagName)
        textForDetection ==
            IF dirAttr # <<>> /\ LowerStr(dirAttr) = Str("auto")
            THEN extractTextForAutoDetection(html, gt + 1, cleanTag)
            ELSE <<>>
    IN  updateStyleFromStack(
          [ s1 EXCEPT !.tagStack = Append(@, cleanTag),
                      !.dirContext = enterElement(@, cleanTag, dirAttr, textForDetection) ])

\* !isClosing && isInlineFormattingTag
InlineOpenCountsEveryAnchor(s, cleanTag, html, gt) ==
    LET s1 == flushSegment(s, FALSE)
        href == IF cleanTag = Str("a") THEN extractHrefUrl(s.tagName) ELSE <<>>
        dirAttr == extractDirAttr(s.tagName)
        lowerDir == LowerStr(dirAttr)
        needsAutoDetection ==
            IF dirAttr # <<>> THEN lowerDir = Str("auto") ELSE cleanTag = Str("bdi")
        textForDetection ==
            IF needsAutoDetection
            THEN extractTextForAutoDetection(html, gt + 1, cleanTag)
            ELSE <<>>
        control ==
            IF cleanTag = Str("bdi") THEN FSI
            ELSE IF cleanTag = Str("bdo") /\ lowerDir = Str("rtl") THEN RLO
            ELSE IF cleanTag = Str("bdo") /\ lowerDir = Str("ltr") THEN LRO
            ELSE <<>>
    IN  updateStyleFromStack(
          [ s1 EXCEPT !.tagStack = Append(@, cleanTag),
                      !.linkDepth = IF cleanTag = Str("a") THEN @ + 1 ELSE @,
                      !.linkUrlStack = IF href # <<>> THEN Append(@, href) ELSE @,
                      !.dirContext = enterElement(@, cleanTag, dirAttr, textForDetection),
                      !.currentText = @ \o control ])

InlineOpen(s, cleanTag, html, gt) ==
    LET s1 == flushSegment(s, FALSE)
        href == IF cleanTag = Str("a") THEN extractHrefUrl(s.tagName) ELSE <<>>
        dirAttr == extractDirAttr(s.tagName)
        lowerDir == LowerStr(dirAttr)
        needsAutoDetection ==
            IF dirAttr # <<>> THEN lowerDir = Str("auto") ELSE cleanTag = Str("bdi")
        textForDetection ==
            IF needsAutoDetection
            THEN extractTextForAutoDetection(html, gt + 1, cleanTag)
            ELSE <<>>
        control ==
            IF cleanTag = Str("bdi") THEN FSI
            ELSE IF cleanTag = Str("bdo") /\ lowerDir = Str("rtl") THEN RLO
            ELSE IF cleanTag = Str("bdo") /\ lowerDir = Str("ltr") THEN LRO
            ELSE <<>>
    IN  updateStyleFromStack(
          [ s1 EXCEPT !.tagStack = Append(@, cleanTag),
                      !.linkDepth = IF href # <<>> THEN @ + 1 ELSE @,
                      !.linkUrlStack = IF href # <<>> THEN Append(@, href) ELSE @,
                      !.dirContext = enterElement(@, cleanTag, dirAttr, textForDetection),
                      !.currentText = @ \o control ])

InlineCloseNoControl(s, cleanTag) ==
    LET s1 == flushSegment(s, TRUE)
        popLink == cleanTag = Str("a") /\ s1.linkDepth > 0
    IN  IF s1.tagStack # <<>> /\ Last(s1.tagStack) = cleanTag
        THEN updateStyleFromStack(
               [ s1 EXCEPT !.tagStack = Pop(@),
                           !.linkDepth = IF popLink THEN @ - 1 ELSE @,
                           !.linkUrlStack = IF popLink /\ @ # <<>> THEN Pop(@) ELSE @,
                           !.dirContext = exitElement(@, cleanTag) ])
        ELSE s1

InlineClosePopsAlways(s, cleanTag) ==
    LET control == IF cleanTag = Str("bdi") THEN PDI
                   ELSE IF cleanTag = Str("bdo") THEN PDF
                   ELSE <<>>
        s1 == flushSegment([s EXCEPT !.currentText = @ \o control], TRUE)
        popLink == cleanTag = Str("a") /\ s1.linkDepth > 0
    IN  IF s1.tagStack # <<>>
        THEN updateStyleFromStack(
               [ s1 EXCEPT !.tagStack = Pop(@),
                           !.linkDepth = IF popLink THEN @ - 1 ELSE @,
                           !.linkUrlStack = IF popLink /\ @ # <<>> THEN Pop(@) ELSE @,
                           !.dirContext = exitElement(@, cleanTag) ])
        ELSE s1

\* isClosing && isInlineFormattingTag
InlineClose(s, cleanTag) ==
    LET control == IF cleanTag = Str("bdi") THEN PDI
                   ELSE IF cleanTag = Str("bdo") THEN PDF
                   ELSE <<>>
        s1 == flushSegment([s EXCEPT !.currentText = @ \o control], TRUE)
        popLink == cleanTag = Str("a") /\ s1.linkDepth > 0
    IN  IF s1.tagStack # <<>> /\ Last(s1.tagStack) = cleanTag
        THEN updateStyleFromStack(
               [ s1 EXCEPT !.tagStack = Pop(@),
                           !.linkDepth = IF popLink THEN @ - 1 ELSE @,
                           !.linkUrlStack = IF popLink /\ @ # <<>> THEN Pop(@) ELSE @,
                           !.dirContext = exitElement(@, cleanTag) ])
        ELSE s1

ListItemOpenUncapped(s) ==
    LET text0 == IF s.currentText # <<>> /\ Last(s.currentText) # "\n"
                 THEN Append(s.currentText, "\n") ELSE s.currentText
        n == Len(s.listStack)
        counter == s.listStack[n].itemCounter + 1
        marker == IF s.listStack[n].type = "Ordered"
                  THEN DecStr(counter) \o Str(". ")
                  ELSE BULLET \o <<" ">>
    IN  IF s.listStack # <<>>
        THEN [ s EXCEPT !.listStack[n].itemCounter = counter,
                        !.currentText = text0 \o Spaces((n - 1) * 4) \o marker ]
        ELSE [ s EXCEPT !.currentText = text0 \o BULLET \o <<" ">> ]

\* !isClosing && li
ListItemOpen(s) ==
    LET text0 == IF s.currentText # <<>> /\ Last(s.currentText) # "\n"
                 THEN Append(s.currentText, "\n") ELSE s.currentText
        n == Len(s.listStack)
        counter == s.listStack[n].itemCounter + 1
        indentLevel == IF n - 1 > 100 THEN 100 ELSE n - 1
        indent == IF indentLevel > 0 THEN Spaces(indentLevel * 4) ELSE <<>>
        marker == IF s.listStack[n].type = "Ordered"
                  THEN DecStr(counter) \o Str(". ")
                  ELSE BULLET \o <<" ">>
    IN  IF s.listStack # <<>>
        THEN [ s EXCEPT !.listStack[n].itemCounter = counter,
                        !.currentText = text0 \o indent \o marker ]
        ELSE [ s EXCEPT !.currentText = text0 \o BULLET \o <<" ">> ]

\* isClosing && li
ListItemClose(s) ==
    IF s.currentText # <<>> /\ Last(s.currentText) \notin {".", "!", "?", ":", ";"}
    THEN [ s EXCEPT !.currentText = Append(@, ".") ]
    ELSE s

ListOpenContinued(s, type) ==
    [ s EXCEPT !.listStack = Append(@,
        [ type |-> type,
          itemCounter |-> IF s.listStack = <<>> THEN 0 ELSE Last(s.listStack).itemCounter,
          nestingLevel |-> Len(s.listStack) + 1 ]) ]

\* !isClosing && (ul | ol)
ListOpen(s, type) ==
    [ s EXCEPT !.listStack = Append(@,
        [ type |-> type, itemCounter |-> 0, nestingLevel |-> Len(s.listStack) + 1 ]) ]

\* isClosing && (ul | ol)
ListClose(s) ==
    LET s1 == IF s.listStack # <<>> THEN [ s EXCEPT !.listStack = Pop(@) ] ELSE s
    IN  IF s1.listStack = <<>>
        THEN flushSegment([ s1 EXCEPT !.currentText = Append(@, "\n") ], FALSE)
        ELSE s1

\* The body of `if (c == '>')`: the tag dispatch; gt is the position of the '>'
DispatchTag(s, html, gt) ==
    LET isClosing == IsClosingOf(s.tagName)
        cleanTag  == CleanTagOf(s.tagName)
        s0 == [ s EXCEPT !.inTag = FALSE ]
        s1 ==
          IF cleanTag = Str("script") THEN [ s0 EXCEPT !.inScript = ~isClosing ]
          ELSE IF cleanTag = Str("style") THEN [ s0 EXCEPT !.inStyle = ~isClosing ]
          ELSE IF cleanTag = Str("br") THEN [ s0 EXCEPT !.currentText = Append(@, "\n") ]
          ELSE IF isClosing /\ cleanTag \in ParserBlockTags THEN BlockClose(s0, cleanTag)
          ELSE IF ~isClosing /\ cleanTag \in ParserBlockTags
               THEN BlockOpen(s0, cleanTag, html, gt)
          ELSE IF ~isClosing /\ isInlineFormattingTag(cleanTag)
               THEN InlineOpen(s0, cleanTag, html, gt)
          ELSE IF isClosing /\ isInlineFormattingTag(cleanTag)
               THEN InlineClose(s0, cleanTag)
          ELSE IF ~isClosing /\ cleanTag = Str("li") THEN ListItemOpen(s0)
          ELSE IF isClosing /\ cleanTag = Str("li") THEN ListItemClose(s0)
          ELSE IF ~isClosing /\ cleanTag = Str("ul") THEN ListOpen(s0, "Unordered")
          ELSE IF ~isClosing /\ cleanTag = Str("ol") THEN ListOpen(s0, "Ordered")
          ELSE IF isClosing /\ cleanTag \in {Str("ul"), Str("ol")} THEN ListClose(s0)
          ELSE s0
    IN  [ s1 EXCEPT !.tagName = <<>> ]

---------------------------------------------------------------------------
(* AttributedStringBuilder.cpp *)

\* A float is a record: nan, or the value v in hundredths (14.0f has v = 1400)
Float(v) == [ nan |-> FALSE, v |-> v ]
NaN == [ nan |-> TRUE, v |-> 0 ]

\* !std::isnan(x) && x > 0
IsPositive(x) == ~x.nan /\ x.v > 0

FMul(a, b) == Float((a.v * b.v) \div 100)

DEFAULT_LINK_COLOR == -16745729           \* 0xFF007AFF as int32_t
LINE_HEIGHT_BUFFER_DEFAULT == 400         \* 4.0f

\* FabricRichTagStyle with every member unset
DefaultTagStyle ==
    [ color |-> 0, fontSize |-> NaN, fontWeight |-> <<>>, fontStyle |-> <<>>,
      textDecorationLine |-> <<>> ]

BoldWeights == { Str("bold"), Str("700"), Str("800"), Str("900") }

\* The for loop of buildAccessibilityLabel from position k
RECURSIVE AccessibilityLabelFrom(_, _, _)
AccessibilityLabelFrom(plainText, k, a11yLabel) ==
    IF k > Len(plainText) THEN a11yLabel
    ELSE
      LET c == plainText[k]
          next == plainText[k + 1]
          isListMarker ==
              \/ next \in {"0", "1", "2", "3", "4", "5", "6", "7", "8", "9"}
              \/ (k + 3 <= Len(plainText) /\ next = "E2"
                  /\ plainText[k + 2] = "80" /\ plainText[k + 3] = "A2")
          period ==
              IF c = "\n" /\ k + 1 <= Len(plainText) /\ isListMarker /\ a11yLabel # <<>>
                 /\ Last(a11yLabel) \notin {".", "!", "?", ":", ";"}
              THEN <<".">> ELSE <<>>
      IN  AccessibilityLabelFrom(plainText, k + 1, a11yLabel \o period \o <<c>>)

buildAccessibilityLabel(plainText) == AccessibilityLabelFrom(plainText, 1, <<>>)

TrimTrailingBreaksNone(segs) == segs

\* while (!workingSegments.empty() && isParagraphBreak(back)) pop_back
RECURSIVE TrimTrailingBreaks(_)
TrimTrailingBreaks(segs) ==
    IF segs # <<>> /\ isParagraphBreak(Last(segs).text)
    THEN TrimTrailingBreaks(Pop(segs))
    ELSE segs

TrimTrailingSpaceNone(text) == text

\* while (!text.empty() && isspace(back)) pop_back
RECURSIVE TrimTrailingSpace(_)
TrimTrailingSpace(text) ==
    IF text # <<>> /\ IsSpace(Last(text)) THEN TrimTrailingSpace(Pop(text)) ELSE text

\* normalizedText of one iteration of the segment loop
NormalizedTextOf(segment, isLastSegment) ==
    LET isBreak == isParagraphBreak(segment.text)
        normalizedText ==
            normalizeSegmentText(segment.text, isBreak, segment.followsInlineElement)
    IN  IF isLastSegment THEN TrimTrailingSpace(normalizedText) ELSE normalizedText

effectiveMultiplierOf(params) ==
    IF params.allowFontScaling
    THEN IF IsPositive(params.maxFontSizeMultiplier)
         THEN IF params.fontSizeMultiplier.v < params.maxFontSizeMultiplier.v
              THEN params.fontSizeMultiplier ELSE params.maxFontSizeMultiplier
         ELSE params.fontSizeMultiplier
    ELSE Float(100)

\* The value of a hexadecimal digit of either case; -1 for any other byte
HexDigitOf(c) ==
    IF \E k \in 1..16 : HexDigits[k] = c THEN HexVal(c)
    ELSE IF \E k \in 1..6 : LowerLetters[k] = c
    THEN 9 + (CHOOSE k \in 1..6 : LowerLetters[k] = c)
    ELSE -1

\* The number the hexadecimal digits str[lo..hi] write
RECURSIVE HexNumber(_, _, _)
HexNumber(str, lo, hi) ==
    IF lo > hi THEN 0 ELSE 16 * HexNumber(str, lo, hi - 1) + HexDigitOf(str[hi])

\* std::stoul(str, nullptr, 16), that is strtoul: leading white space is skipped, one
\* sign and a 0x prefix before a digit are accepted, the digits end at the first byte
\* that is none, and what follows them is ignored.  With no digit at all
\* std::invalid_argument is thrown.  A minus sign negates in unsigned long: the value
\* of -m is 2^w - m for m > 0 (w the width of unsigned long, 32 or 64), written here
\* as wrapped with value m.
stoul16(str) ==
    LET n        == Len(str)
        nonSpace == {k \in 1..n : ~IsSpace(str[k])}
        p0       == IF nonSpace = {} THEN n + 1
                    ELSE CHOOSE k \in nonSpace : \A m \in nonSpace : k <= m
        negative == p0 <= n /\ str[p0] = "-"
        p1       == IF p0 <= n /\ str[p0] \in {"+", "-"} THEN p0 + 1 ELSE p0
        prefixed == /\ p1 + 2 <= n
                    /\ str[p1] = "0"
                    /\ str[p1 + 1] \in {"x", "X"}
                    /\ HexDigitOf(str[p1 + 2]) >= 0
        p2       == IF prefixed THEN p1 + 2 ELSE p1
        stops    == {k \in p2..n : HexDigitOf(str[k]) < 0}
        end      == IF stops = {} THEN n + 1
                    ELSE CHOOSE k \in stops : \A m \in stops : k <= m
        magnitude == HexNumber(str, p2, end - 1)
    IN  IF end = p2
        THEN [ thrown |-> TRUE, wrapped |-> FALSE, value |-> 0 ]
        ELSE [ thrown |-> FALSE, wrapped |-> negative /\ magnitude > 0, value |-> magnitude ]

\* StyleParser.cpp parseHexColor.  A wrapped rgb is at least 2^32 - 0xFFFFFF, above
\* 0xFFFFFF; the result is the int32_t of 0xFF000000u | rgb, that is rgb - 2^24.
parseHexColor(colorStr) ==
    IF colorStr = <<>> \/ colorStr[1] # "#" THEN 0
    ELSE LET sub == Suffix(colorStr, 2)
             hex == IF Len(sub) = 3
                    THEN <<sub[1], sub[1], sub[2], sub[2], sub[3], sub[3]>>
                    ELSE sub
         IN  IF Len(hex) # 6 THEN 0
             ELSE LET rgb == stoul16(hex)
                  IN  IF rgb.thrown THEN 0
                      ELSE IF rgb.wrapped \/ rgb.value > 16777215 THEN 0
                      ELSE rgb.value - 16777216

\* StyleParser.cpp getStringValueFromStyleObj
getStringValueFromStyleObj(styleObj, key) ==
    LET n          == Len(styleObj)
        searchKey  == <<"\"">> \o key \o <<"\"">>
        keyPos     == Find(styleObj, searchKey, 1)
        colonPos   == IF keyPos = 0 THEN 0 ELSE FindChar(styleObj, ":", keyPos)
        nonSpace   == {k \in (colonPos + 1)..n : ~IsSpace(styleObj[k])}
        valueStart == IF nonSpace = {} THEN n + 1
                      ELSE CHOOSE k \in nonSpace : \A m \in nonSpace : k <= m
        quoteEnd   == FindChar(styleObj, "\"", valueStart + 1)
    IN  IF keyPos = 0 \/ colonPos = 0 THEN <<>>
        ELSE IF valueStart > n THEN <<>>
        ELSE IF styleObj[valueStart] = "\""
        THEN IF quoteEnd = 0 THEN <<>>
             ELSE SubSeq(styleObj, valueStart + 1, quoteEnd - 1)
        ELSE <<>>

IsDigit(c) == \E k \in 1..10 : Str("0123456789")[k] = c

\* The number the decimal digits str[lo..hi] write
RECURSIVE DecNumber(_, _, _)
DecNumber(str, lo, hi) ==
    IF lo > hi THEN 0
    ELSE 10 * DecNumber(str, lo, hi - 1)
         + (CHOOSE d \in 0..9 : Str("0123456789")[d + 1] = str[hi])

\* std::stof on a run of digits, '.' and '-': a sign, digits, a point, digits; what
\* follows is ignored, and with no digit std::invalid_argument is thrown (NaN here, as
\* the caller returns then).  Values are kept in hundredths.
stof(numStr) ==
    LET n        == Len(numStr)
        negative == n > 0 /\ numStr[1] = "-"
        p        == IF negative THEN 2 ELSE 1
        stops1   == {k \in p..n : ~IsDigit(numStr[k])}
        intEnd   == IF stops1 = {} THEN n + 1
                    ELSE CHOOSE k \in stops1 : \A m \in stops1 : k <= m
        hasPoint == intEnd <= n /\ numStr[intEnd] = "."
        stops2   == {k \in (intEnd + 1)..n : ~IsDigit(numStr[k])}
        fracEnd  == IF ~hasPoint THEN intEnd
                    ELSE IF stops2 = {} THEN n + 1
                    ELSE CHOOSE k \in stops2 : \A m \in stops2 : k <= m
        fracLen  == IF hasPoint THEN fracEnd - intEnd - 1 ELSE 0
        tenths     == IF fracLen >= 1 THEN DecNumber(numStr, intEnd + 1, intEnd + 1) ELSE 0
        hundredths == IF fracLen >= 2 THEN DecNumber(numStr, intEnd + 2, intEnd + 2) ELSE 0
        magnitude  == 100 * DecNumber(numStr, p, intEnd - 1) + 10 * tenths + hundredths
    IN  IF (intEnd - p) + fracLen = 0 THEN NaN
        ELSE Float(IF negative THEN 0 - magnitude ELSE magnitude)

\* StyleParser.cpp getNumericValueFromStyleObj
getNumericValueFromStyleObj(styleObj, key) ==
    LET n          == Len(styleObj)
        searchKey  == <<"\"">> \o key \o <<"\"">>
        keyPos     == Find(styleObj, searchKey, 1)
        colonPos   == IF keyPos = 0 THEN 0 ELSE FindChar(styleObj, ":", keyPos)
        nonSpace   == {k \in (colonPos + 1)..n : ~IsSpace(styleObj[k])}
        valueStart == IF nonSpace = {} THEN n + 1
                      ELSE CHOOSE k \in nonSpace : \A m \in nonSpace : k <= m
        stops      == {k \in valueStart..n : ~(IsDigit(styleObj[k]) \/ styleObj[k] \in {".", "-"})}
        numEnd     == IF stops = {} THEN n + 1
                      ELSE CHOOSE k \in stops : \A m \in stops : k <= m
        numStr     == SubSeq(styleObj, valueStart, numEnd - 1)
    IN  IF keyPos = 0 \/ colonPos = 0 THEN NaN
        ELSE IF valueStart > n THEN NaN
        ELSE IF numStr = <<>> THEN NaN
        ELSE stof(numStr)

matchBraceCharCountsAll(tagStyles, st, k) ==
    IF st.braceCount > 0
    THEN LET ch == tagStyles[k]
         IN  [ st EXCEPT !.braceCount = IF ch = "{" THEN @ + 1
                                        ELSE IF ch = "}" THEN @ - 1 ELSE @,
                         !.braceEnd = k + 1 ]
    ELSE st

\* getStyleFromTagStyles: one iteration of the brace matching loop, at the byte k;
\* braceEnd is the position of the next byte to read
matchBraceChar(tagStyles, st, k) ==
    IF st.braceCount > 0
    THEN LET ch == tagStyles[k]
             opens  == ~st.inString /\ ch \in {"\"", "'"}
             closes == /\ ~opens /\ st.inString /\ ch = st.stringDelimiter
                       /\ tagStyles[k - 1] # "\\"
             inString == IF opens THEN TRUE ELSE IF closes THEN FALSE ELSE st.inString
         IN  [ braceCount |-> IF inString THEN st.braceCount
                              ELSE IF ch = "{" THEN st.braceCount + 1
                              ELSE IF ch = "}" THEN st.braceCount - 1
                              ELSE st.braceCount,
               braceEnd   |-> k + 1,
               inString   |-> inString,
               stringDelimiter |-> IF opens THEN ch ELSE st.stringDelimiter ]
    ELSE st

\* getStyleFromTagStyles up to styleObj: whether the tag's object was found with its
\* braces balanced, and the object
styleObjOf(tagStyles, tagName) ==
    LET searchPattern == <<"\"">> \o tagName \o <<"\"">>
        tagPos     == Find(tagStyles, searchPattern, 1)
        braceStart == IF tagPos = 0 THEN 0 ELSE FindChar(tagStyles, "{", tagPos)
        Body(st, k) == matchBraceChar(tagStyles, st, k)
        matched == Loop(Body, braceStart + 1, Len(tagStyles),
                        [ braceCount |-> 1, braceEnd |-> braceStart + 1,
                          inString |-> FALSE, stringDelimiter |-> "00" ])
    IN  IF tagPos = 0 \/ braceStart = 0 THEN [ found |-> FALSE, styleObj |-> <<>> ]
        ELSE IF matched.braceCount # 0 THEN [ found |-> FALSE, styleObj |-> <<>> ]
        ELSE [ found |-> TRUE,
               styleObj |-> SubSeq(tagStyles, braceStart, matched.braceEnd - 1) ]

\* StyleParser.cpp getStyleFromTagStyles
getStyleFromTagStyles(tagStyles, tagName) ==
    IF tagStyles = <<>> \/ tagName = <<>> THEN DefaultTagStyle
    ELSE LET obj == styleObjOf(tagStyles, tagName)
             styleObj == obj.styleObj
             colorValue == getStringValueFromStyleObj(styleObj, Str("color"))
         IN  IF ~obj.found THEN DefaultTagStyle
             ELSE [ color      |-> IF colorValue # <<>> THEN parseHexColor(colorValue) ELSE 0,
                    fontSize   |-> getNumericValueFromStyleObj(styleObj, Str("fontSize")),
                    fontWeight |-> getStringValueFromStyleObj(styleObj, Str("fontWeight")),
                    fontStyle  |-> getStringValueFromStyleObj(styleObj, Str("fontStyle")),
                    textDecorationLine |->
                        getStringValueFromStyleObj(styleObj, Str("textDecorationLine")) ]

\* colorFromRGBA(r, g, b, a) of (colorToApply >> n) & 0xFF
ColorFromARGB(c) ==
    [ isSet |-> TRUE,
      a |-> (c \div 16777216) % 256, r |-> (c \div 65536) % 256,
      g |-> (c \div 256) % 256,      b |-> c % 256 ]

\* foregroundColor of TextAttributes::defaultTextAttributes()
UnsetColor == [ isSet |-> FALSE, a |-> 0, r |-> 0, g |-> 0, b |-> 0 ]

\* The fragment the loop body builds for a segment whose normalizedText is not empty
FragmentOf(segment, normalizedText, params) ==
    LET Fragment(tagStyle) ==
            LET effectiveMultiplier == effectiveMultiplierOf(params)
                segmentFontSize ==
                    IF IsPositive(tagStyle.fontSize)
                    THEN FMul(tagStyle.fontSize, effectiveMultiplier)
                    ELSE FMul(FMul(params.baseFontSize, Float(segment.fontScale)), effectiveMultiplier)
                minLineHeight == Float(segmentFontSize.v + LINE_HEIGHT_BUFFER_DEFAULT)
                isBold == IF tagStyle.fontWeight # <<>> THEN tagStyle.fontWeight \in BoldWeights
                          ELSE segment.isBold
                isItalic == IF tagStyle.fontStyle # <<>> THEN tagStyle.fontStyle = Str("italic")
                            ELSE segment.isItalic
                deco == tagStyle.textDecorationLine
                hasUnderline ==
                    IF deco = Str("underline") THEN TRUE
                    ELSE IF deco = Str("line-through") THEN FALSE
                    ELSE IF deco \in {Str("underline line-through"), Str("line-through underline")}
                    THEN TRUE
                    ELSE IF deco = Str("none") THEN FALSE
                    ELSE segment.isUnderline
                hasStrikethrough ==
                    IF deco = Str("underline") THEN FALSE
                    ELSE IF deco = Str("line-through") THEN TRUE
                    ELSE IF deco \in {Str("underline line-through"), Str("line-through underline")}
                    THEN TRUE
                    ELSE IF deco = Str("none") THEN FALSE
                    ELSE segment.isStrikethrough
                colorToApply ==
                    IF tagStyle.color # 0 THEN tagStyle.color
                    ELSE IF segment.isLink THEN DEFAULT_LINK_COLOR
                    ELSE IF params.color # 0 THEN params.color
                    ELSE 0
            IN  [ string           |-> normalizedText,
                  allowFontScaling |-> params.allowFontScaling,
                  fontSize         |-> segmentFontSize,
                  lineHeight       |-> IF IsPositive(params.lineHeight)
                                       THEN IF params.lineHeight.v > minLineHeight.v
                                            THEN params.lineHeight ELSE minLineHeight
                                       ELSE minLineHeight,
                  fontWeight       |-> IF isBold THEN "Bold"
                                       ELSE IF params.fontWeight \in BoldWeights THEN "Bold"
                                       ELSE "unset",
                  fontFamily       |-> params.fontFamily,
                  fontStyle        |-> IF isItalic THEN "Italic"
                                       ELSE IF params.fontStyle = Str("italic") THEN "Italic"
                                       ELSE "unset",
                  letterSpacing    |-> params.letterSpacing,
                  textDecorationLineType |->
                                       IF hasUnderline /\ hasStrikethrough
                                       THEN "UnderlineStrikethrough"
                                       ELSE IF hasUnderline THEN "Underline"
                                       ELSE IF hasStrikethrough THEN "Strikethrough"
                                       ELSE "unset",
                  foregroundColor  |-> IF colorToApply # 0 THEN ColorFromARGB(colorToApply)
                                       ELSE UnsetColor ]
    IN  Fragment(IF segment.parentTag # <<>> /\ params.tagStyles # <<>>
                 THEN getStyleFromTagStyles(params.tagStyles, segment.parentTag)
                 ELSE DefaultTagStyle)

EmptyResult == [ fragments |-> <<>>, linkUrls |-> <<>>, accessibilityLabel |-> <<>> ]

BuildIterationLinkUrlFirst(res, segs, idx, params) ==
    LET segment == segs[idx]
        normalizedText == NormalizedTextOf(segment, idx = Len(segs))
        res1 == [ res EXCEPT !.linkUrls = Append(@, segment.linkUrl) ]
    IN  IF normalizedText = <<>> THEN res1
        ELSE [ res1 EXCEPT
                 !.fragments = Append(@, FragmentOf(segment, normalizedText, params)) ]

\* One iteration of the segment loop of buildAttributedString
BuildIterationLinkColorFirst(res, segs, idx, params) ==
    LET segment == segs[idx]
        normalizedText == NormalizedTextOf(segment, idx = Len(segs))
        fragment == FragmentOf(segment, normalizedText, params)
    IN  IF normalizedText = <<>> THEN res
        ELSE [ res EXCEPT
                 !.fragments = Append(@, [ fragment EXCEPT !.foregroundColor =
                                             IF segment.isLink
                                             THEN ColorFromARGB(DEFAULT_LINK_COLOR)
                                             ELSE @ ]),
                 !.linkUrls  = Append(@, segment.linkUrl) ]

BuildIteration(res, segs, idx, params) ==
    LET segment == segs[idx]
        normalizedText == NormalizedTextOf(segment, idx = Len(segs))
    IN  IF normalizedText = <<>> THEN res
        ELSE [ res EXCEPT
                 !.fragments = Append(@, FragmentOf(segment, normalizedText, params)),
                 !.linkUrls  = Append(@, segment.linkUrl) ]

PlainTextOf(fragments) == Flatten([k \in 1..Len(fragments) |-> fragments[k].string])

---------------------------------------------------------------------------
(* FabricHTMLTextState.cpp: the link URLs of the state, as the view layer gets them *)

UINT16_MAX == 65535

\* A std::vector<std::string> is given by its size and its non-empty entries: at maps
\* the 0-based indices that hold a non-empty string to that string
VectorAt(v, k) == IF k \in DOMAIN v.at THEN v.at[k] ELSE <<>>

EmptyVector == [ size |-> 0, at |-> <<>> ]

\* No entry has been put under HTML_STATE_KEY_LINK_URLS
NoLinkUrlsMap == [ present |-> FALSE, entries |-> {} ]

InitTextState == [ linkUrls |-> EmptyVector, mapBuffer |-> NoLinkUrlsMap ]

\* static_cast<MapBuffer::Key>(k), MapBuffer::Key being uint16_t
MapBufferKey(k) == k % 65536

LinkUrlsEntryWrapped(linkUrls, b, k) ==
    IF b.broken THEN b
    ELSE IF VectorAt(linkUrls, k) # <<>>
    THEN [ b EXCEPT !.entries = @ \cup { <<MapBufferKey(k), VectorAt(linkUrls, k)>> } ]
    ELSE b

\* One iteration of the for loop of getMapBuffer, at index k; b holds the entries put
\* into linkUrlsBuilder and whether the loop has been left by its break
LinkUrlsEntry(linkUrls, b, k) ==
    IF b.broken THEN b
    ELSE IF k > UINT16_MAX THEN [ b EXCEPT !.broken = TRUE ]
    ELSE IF VectorAt(linkUrls, k) # <<>>
    THEN [ b EXCEPT !.entries = @ \cup { <<MapBufferKey(k), VectorAt(linkUrls, k)>> } ]
    ELSE b

\* The link URL part of getMapBuffer
LinkUrlsMapBuffer(linkUrls) ==
    LET Body(b, k) == LinkUrlsEntry(linkUrls, b, k)
    IN  IF linkUrls.size # 0
        THEN [ present |-> TRUE,
               entries |-> Loop(Body, 0, linkUrls.size - 1,
                                [ entries |-> {}, broken |-> FALSE ]).entries ]
        ELSE NoLinkUrlsMap

---------------------------------------------------------------------------
(* The other frontends: FabricRichParserLibxml2.cpp and FabricHTMLParser.cpp *)

\* FabricRichParserLibxml2::isAllowedUrlScheme
Libxml2_isAllowedUrlScheme(u) ==
    LET lowered == LowerStr(u)
        keep  == {k \in 1..Len(lowered) : lowered[k] \notin UrlTrimSet}
        start == IF keep = {} THEN 0 ELSE CHOOSE k \in keep : \A m \in keep : k <= m
        lowerUrl == IF start # 0 THEN Suffix(lowered, start) ELSE lowered
    IN  IF \/ StartsWith(lowerUrl, Str("javascript:"))
           \/ StartsWith(lowerUrl, Str("vbscript:"))
           \/ StartsWith(lowerUrl, Str("data:"))
        THEN FALSE
        ELSE TRUE

\* The isAllowedUrlScheme lambda of FabricHTMLParser::parseHtmlToSegments
Legacy_isAllowedUrlScheme(u) ==
    LET lowered == LowerStr(u)
        keep  == {k \in 1..Len(lowered) : lowered[k] \notin UrlTrimSet}
        start == IF keep = {} THEN 0 ELSE CHOOSE k \in keep : \A m \in keep : k <= m
        lowerUrl == IF start # 0 THEN Suffix(lowered, start) ELSE lowered
    IN  IF \/ StartsWith(lowerUrl, Str("javascript:"))
           \/ StartsWith(lowerUrl, Str("vbscript:"))
           \/ StartsWith(lowerUrl, Str("data:"))
        THEN FALSE
        ELSE TRUE

\* The extractHrefUrl lambda of FabricHTMLParser::parseHtmlToSegments
Legacy_extractHrefUrl(fullTag) ==
    LET u == QuotedValue(fullTag, Str("href="))
    IN  IF u = <<>> THEN <<>>
        ELSE IF ~Legacy_isAllowedUrlScheme(u) THEN <<>>
        ELSE u

\* libxml2StartElement, inline formatting branch, for <a> with the attribute href
Libxml2_StartAnchor(s, href) ==
    LET s1 == flushSegment(s, FALSE)
        link == href # <<>> /\ Libxml2_isAllowedUrlScheme(href)
    IN  updateStyleFromStack(
          [ s1 EXCEPT !.tagStack = Append(@, Str("a")),
                      !.linkDepth = IF link THEN @ + 1 ELSE @,
                      !.linkUrlStack = IF link THEN Append(@, href) ELSE @,
                      !.dirContext = enterElement(@, Str("a"), <<>>, <<>>) ])

\* FabricHTMLParser::parseHtmlToSegments, inline open branch, for the tag body tagName
Legacy_StartAnchor(s, tagName) ==
    LET s1 == flushSegment(s, FALSE)
        href == Legacy_extractHrefUrl(tagName)
    IN  updateStyleFromStack(
          [ s1 EXCEPT !.tagStack = Append(@, Str("a")),
                      !.linkDepth = IF href # <<>> THEN @ + 1 ELSE @,
                      !.linkUrlStack = IF href # <<>> THEN Append(@, href) ELSE @,
                      !.dirContext = enterElement(@, Str("a"), <<>>, <<>>) ])

---------------------------------------------------------------------------
(* android ShadowNodes.cpp: FabricHTMLTextShadowNode *)

\* FabricHTMLParser::parseHtmlWithLinkUrls on markup of one <a ...> tag followed by
\* text: parseHtmlToSegments reads the tag and emits the text at the end of the input;
\* the trimming, the fragment loop and the label are those of the shared builder
Legacy_parseHtmlWithLinkUrls(html, params) ==
    LET Segments(normalizedHtml, gt) ==
            LET s1 == Legacy_StartAnchor(InitParser, SubSeq(normalizedHtml, 2, gt - 1))
            IN  TrimTrailingBreaks(
                  flushSegment([ s1 EXCEPT !.currentText = Suffix(normalizedHtml, gt + 1) ],
                               FALSE).segments)
        Parsed(normalizedHtml) ==
            Segments(normalizedHtml, FindChar(normalizedHtml, ">", 1))
        Labelled(built) ==
            [ built EXCEPT !.accessibilityLabel =
                             buildAccessibilityLabel(PlainTextOf(built.fragments)) ]
        Built(segs) ==
            IF segs = <<>> THEN EmptyResult
            ELSE Labelled(BuildIteration(EmptyResult, segs, 1, params))
    IN  IF html = <<>> THEN EmptyResult
        ELSE Built(Parsed(normalizeInterTagWhitespace(html)))

\* The threads that call measureContent on the node, and the one that calls layout
MeasureThreads == { "measure1", "measure2" }
LayoutThread == "layout"

\* A node after construction: nobody holds _mutex, the cached members are empty, no
\* state has been set, and no thread is inside a call
InitShadowNode ==
    [ mutex            |-> "none",   \* _mutex: the thread that holds it
      attributedString |-> <<>>,     \* _attributedString, its fragments
      linkUrls         |-> <<>>,     \* _linkUrls
      state            |-> [ attributedString |-> <<>>, linkUrls |-> <<>> ],
      measure          |-> [ t \in MeasureThreads |->
                               [ pc |-> "idle", fontSizeMultiplier |-> Float(100),
                                 localAttributedString |-> <<>> ] ],
      layout           |-> [ pc |-> "idle", localAttributedString |-> <<>>,
                             localLinkUrls |-> <<>> ] ]

lockWithoutWaiting(mutex, thread) == [ acquired |-> TRUE, mutex |-> thread ]

\* std::lock_guard<std::mutex> lock(_mutex): the thread goes on once nobody holds it
lock(mutex, thread) == [ acquired |-> mutex = "none", mutex |-> thread ]

\* FabricHTMLTextShadowNode::parseHtmlToAttributedString: what it leaves in _linkUrls
\* and what it returns
parseHtmlToAttributedString(html, fontSizeMultiplier, props) ==
    IF html = <<>>
    THEN [ linkUrls |-> <<>>, returned |-> <<>> ]
    ELSE LET baseFontSize ==
                 IF IsPositive(props.baseFontSize) THEN props.baseFontSize ELSE Float(1400)
             Returned(parseResult) ==
                 [ linkUrls |-> parseResult.linkUrls, returned |-> parseResult.fragments ]
         IN  Returned(Legacy_parseHtmlWithLinkUrls(
                          html, [ props EXCEPT !.baseFontSize = baseFontSize,
                                               !.fontSizeMultiplier = fontSizeMultiplier ]))

---------------------------------------------------------------------------
(* History of a run.  It records, beside the parser's own state, what the     *)
(* properties need to know about the input read so far; no action reads it.   *)

\* What is known of the source text held in currentText
NoText == [ hasText |-> FALSE, afterClose |-> FALSE, inLink |-> FALSE, inBadAnchor |-> FALSE ]

InitHist ==
    [ blockClosed |-> FALSE,  \* a block close tag has been dispatched
      hrefSince   |-> FALSE,  \* an <a> with an accepted href was opened after the last one
      open        |-> <<>>,   \* the open elements, as tagStack holds them, with their tags
      wellNested  |-> TRUE,   \* every close tag so far matched the innermost open element
      cur         |-> NoText, \* about the source text in currentText
      segs        |-> <<>>,   \* the same, per emitted segment
      srcText     |-> <<>>,   \* source bytes read outside tags and script/style
      closed      |-> <<>>,   \* bdi/bdo elements closed by their own close tag
      producer    |-> <<>>,   \* per fragment, the index of the segment it was built from
      stacks      |-> <<>>,   \* per emitted segment, tagStack when it was emitted
      lists       |-> <<>>,   \* the open lists: how many <li> each has had on top
      items       |-> <<>>,   \* per <li> dispatched: its list, its number, its place
      links       |-> <<>>,   \* per emitted segment, linkDepth and linkUrlStack then
      atOpen      |-> InitParser,  \* the parser's locals when the last '<' was read
      saved       |-> <<>>,   \* DirectionContext: the context before each enterElement
                              \* that no exitElement has answered yet
      lastTrip    |-> <<>>,   \* the context before the enterElement that the last
                              \* exitElement answered, and the context after that exit
      dirCalls    |-> 0,      \* DirectionContext: calls made
      emptyExits  |-> 0,      \* exitElement calls made on an empty directionStack
      previous    |-> <<>>,   \* normalizeInterTagWhitespace: the argument of the last call
      calls       |-> 0,      \* normalizeInterTagWhitespace: calls made
      tagName     |-> <<>>,   \* getStyleFromTagStyles: the tag name of the call
      styleObj    |-> [ found |-> FALSE, styleObj |-> <<>> ],
                              \* and the object it matched in the blob
      nodeCalls   |-> 0,      \* shadow node: measureContent and layout calls begun
      parses      |-> 0,      \* shadow node: parses made; they are numbered from 1
      parseOf     |-> [ t \in MeasureThreads |-> 0 ],
                              \* the parse each measuring thread made last
      writer      |-> [ attributedString |-> 0, linkUrls |-> 0 ],
                              \* the parse that wrote each cached member, 0 for none
      copied      |-> [ attributedString |-> 0, linkUrls |-> 0 ],
                              \* the parse that wrote what layout copied
      published   |-> <<>> ]  \* per setStateData, the parses that wrote the two members

\* All text emitted so far, in order
AllText(s) == Flatten([k \in 1..Len(s.segments) |-> s.segments[k].text]) \o s.currentText

\* The tag, read as HTML, has an attribute named href with a quoted, non-empty value
\* that the allowlist accepts
AcceptedHref(tagName) ==
    LET k == Find(tagName, Str(" href="), 1)
        v == QuotedValue(Suffix(tagName, k + 1), Str("href="))
    IN  k # 0 /\ v # <<>> /\ isAllowedUrlScheme(v)

IsLinkElement(e) == e.tag = Str("a") /\ AcceptedHref(e.raw)

InsideLink(h) == \E k \in 1..Len(h.open) : IsLinkElement(h.open[k])

HistFlush(h, s, s2) ==
    IF Len(s2.segments) > Len(s.segments)
    THEN [ h EXCEPT !.segs = Append(@, h.cur), !.cur = NoText,
                    !.stacks = Append(@, s.tagStack),
                    !.links = Append(@, [ linkDepth    |-> s.linkDepth,
                                          linkUrlStack |-> s.linkUrlStack ]) ]
    ELSE h

HistText(h, s, c) ==
    IF s.inScript \/ s.inStyle THEN h
    ELSE [ h EXCEPT
             !.srcText = Append(@, c),
             !.cur = [ hasText     |-> TRUE,
                       afterClose  |-> @.afterClose \/ (h.blockClosed /\ ~h.hrefSince),
                       inLink      |-> InsideLink(h),
                       inBadAnchor |-> h.open # <<>> /\ Last(h.open).tag = Str("a")
                                       /\ ~InsideLink(h) ] ]

HistTag(h, s, s2) ==
    LET closing == IsClosingOf(s.tagName)
        clean   == CleanTagOf(s.tagName)
        tracked == clean \in ParserBlockTags \/ isInlineFormattingTag(clean)
        isOpen  == ~closing /\ tracked
        isClose == closing /\ tracked
        isBlockClose == closing /\ clean \in ParserBlockTags
        matched == isClose /\ h.open # <<>> /\ Last(h.open).tag = clean
        href    == isOpen /\ clean = Str("a") /\ AcceptedHref(s.tagName)
        before  == AllText(s)
        \* the BiDi control the element calls for, read from the tag as written
        kind    == IF clean = Str("bdi") THEN "bdi"
                   ELSE IF clean = Str("bdo")
                           /\ Find(LowerStr(s.tagName), Str(" dir=\"rtl\""), 1) # 0
                   THEN "rtl"
                   ELSE IF clean = Str("bdo")
                           /\ Find(LowerStr(s.tagName), Str(" dir=\"ltr\""), 1) # 0
                   THEN "ltr"
                   ELSE "none"
        h1 == HistFlush(h, s, s2)
        h2 == IF ~s.inTag /\ ~s.inScript /\ ~s.inStyle
              THEN [ h1 EXCEPT !.srcText = Append(@, ">") ] ELSE h1
        isLi    == ~closing /\ clean = Str("li")
        isList  == clean \in {Str("ul"), Str("ol")}
        top     == Len(h.lists)
    IN  [ h2 EXCEPT
            !.lists       = IF isList /\ ~closing
                            THEN Append(@, [ ordered |-> clean = Str("ol"), count |-> 0 ])
                            ELSE IF isList /\ closing /\ top > 0 THEN Pop(@)
                            ELSE IF isLi /\ top > 0 THEN [ @ EXCEPT ![top].count = @ + 1 ]
                            ELSE @,
            !.items       = IF isLi
                            THEN Append(@, [ ordered |-> top > 0 /\ h.lists[top].ordered,
                                             k       |-> IF top > 0 THEN h.lists[top].count + 1
                                                         ELSE 0,
                                             level   |-> top,
                                             before  |-> Len(before),
                                             end     |-> Len(AllText(s2)) ])
                            ELSE @,
            !.blockClosed = @ \/ isBlockClose,
            !.hrefSince   = IF isBlockClose THEN FALSE ELSE @ \/ href,
            !.open        = IF isOpen
                            THEN Append(@, [ tag    |-> clean,
                                             raw    |-> s.tagName,
                                             bumped |-> s2.linkDepth # s.linkDepth
                                                        \/ s2.linkUrlStack # s.linkUrlStack,
                                             kind   |-> kind,
                                             at     |-> Len(before) + 1,
                                             srcAt  |-> Len(h.srcText) ])
                            ELSE IF matched THEN Pop(@) ELSE @,
            !.wellNested  = @ /\ (isClose => matched),
            !.closed      = IF matched /\ Last(h.open).kind # "none"
                            THEN Append(@, [ kind     |-> Last(h.open).kind,
                                             open     |-> Last(h.open).at,
                                             close    |-> Len(before) + 1,
                                             srcOpen  |-> Last(h.open).srcAt,
                                             srcClose |-> Len(h.srcText) ])
                            ELSE @ ]

HistBuild(h, idx, res, res2) ==
    IF Len(res2.fragments) > Len(res.fragments)
    THEN [ h EXCEPT !.producer = Append(@, idx) ]
    ELSE h

---------------------------------------------------------------------------
(* Arguments of the DirectionContext calls *)

MaxDirCalls == 5

DirTags == { Str("bdi"), Str("bdo"), Str("span") }

DirAttrs == { <<>>, Str("rtl"), Str("LTR"), Str("auto") }

\* No text, Latin text, Hebrew text (U+05D0)
DirTexts == { <<>>, Str("a"), <<"D7", "90">> }

---------------------------------------------------------------------------
(* Arguments of the getStyleFromTagStyles calls *)

\* A tag the blobs name, one they do not, and no tag
StyleTagNames == { Str("p"), Str("b"), <<>> }

---------------------------------------------------------------------------
(* Calls on a shadow node *)

MaxNodeCalls == 4

\* layoutContext.fontSizeMultiplier: unset, and 1.5
NodeMultipliers == { Float(0), Float(150) }

---------------------------------------------------------------------------
(* The calls *)

\* isAllowedUrlScheme(url)
CallIsAllowedUrlScheme ==
    /\ pc = "call" /\ api = "isAllowedUrlScheme"
    /\ allowed' = isAllowedUrlScheme(url)
    /\ pc' = "done"
    /\ UNCHANGED <<node, richTagStyle, argb, direction, attributed, textState, api, markup, url, src, i, ps, workingSegments, segIdx, args, result, hist>>

\* FabricHTMLTextState::getMapBuffer
GetMapBuffer ==
    /\ pc = "call" /\ api = "getMapBuffer"
    /\ textState' = [ textState EXCEPT !.mapBuffer = LinkUrlsMapBuffer(textState.linkUrls) ]
    /\ pc' = "done"
    /\ UNCHANGED <<node, richTagStyle, argb, direction, attributed, api, markup, url, allowed, src, i, ps, workingSegments,
                   segIdx, args, result, hist>>

\* The libxml2 frontend reads <a href="url">
Libxml2StartElement ==
    /\ pc = "call" /\ api = "libxml2StartElement"
    /\ ps' = Libxml2_StartAnchor(ps, url)
    /\ pc' = "text"
    /\ UNCHANGED <<node, richTagStyle, argb, direction, attributed, textState, api, markup, url, allowed, src, i, workingSegments, segIdx,
                   args, result, hist>>

\* The legacy frontend reads <a href="url">
LegacyStartAnchor ==
    /\ pc = "call" /\ api = "parseHtmlToSegments"
    /\ ps' = Legacy_StartAnchor(ps, Str("a href=\"") \o url \o Str("\""))
    /\ pc' = "text"
    /\ UNCHANGED <<node, richTagStyle, argb, direction, attributed, textState, api, markup, url, allowed, src, i, workingSegments, segIdx,
                   args, result, hist>>

\* Either frontend reads the text x after the tag and emits it at the end of the input
FrontendText ==
    /\ pc = "text"
    /\ ps' = flushSegment([ ps EXCEPT !.currentText = @ \o Str("x") ], FALSE)
    /\ pc' = "done"
    /\ UNCHANGED <<node, richTagStyle, argb, direction, attributed, textState, api, markup, url, allowed, src, i, workingSegments, segIdx,
                   args, result, hist>>

\* normalizeInterTagWhitespace(src), and once more on what it returned
CallNormalizeInterTagWhitespace ==
    /\ pc = "call" /\ api = "normalizeInterTagWhitespace" /\ hist.calls < 2
    /\ src' = normalizeInterTagWhitespace(src)
    /\ hist' = [ hist EXCEPT !.previous = src, !.calls = @ + 1 ]
    /\ pc' = IF hist.calls = 1 THEN "done" ELSE "call"
    /\ UNCHANGED <<node, richTagStyle, argb, direction, attributed, textState, api, markup, url, allowed, i, ps, workingSegments, segIdx, args, result>>

\* parseMarkupWithLinkUrls up to the call of parseMarkupToSegments
Normalize ==
    /\ pc = "normalize"
    /\ IF markup = <<>>
       THEN pc' = "done" /\ src' = src
       ELSE pc' = "parse" /\ src' = normalizeInterTagWhitespace(markup)
    /\ UNCHANGED <<node, richTagStyle, argb, direction, attributed, textState, api, markup, url, allowed, i, ps, workingSegments, segIdx, args,
                   result, hist>>

\* parseMarkupToSegments, one loop iteration: c == '<'
OpenAngle ==
    /\ pc = "parse" /\ i <= Len(src) /\ src[i] = "<"
    /\ ps' = [ ps EXCEPT !.inTag = TRUE, !.tagName = <<>> ]
    /\ hist' = [ hist EXCEPT !.atOpen = ps ]
    /\ i' = i + 1
    /\ UNCHANGED <<node, richTagStyle, argb, direction, attributed, textState, api, markup, url, allowed, pc, src, workingSegments, segIdx, args,
                   result>>

CloseAngleKeepsStray ==
    /\ pc = "parse" /\ i <= Len(src) /\ src[i] = ">"
    /\ ps' = IF ps.inTag THEN DispatchTag(ps, src, i)
             ELSE [ ps EXCEPT !.currentText = Append(@, ">") ]
    /\ hist' = HistTag(hist, ps, ps')
    /\ i' = i + 1
    /\ UNCHANGED <<node, richTagStyle, argb, direction, attributed, textState, api, markup, url, allowed, pc, src, workingSegments, segIdx, args, result>>

\* one loop iteration: c == '>'
CloseAngle ==
    /\ pc = "parse" /\ i <= Len(src) /\ src[i] = ">"
    /\ ps' = DispatchTag(ps, src, i)
    /\ hist' = HistTag(hist, ps, ps')
    /\ i' = i + 1
    /\ UNCHANGED <<node, richTagStyle, argb, direction, attributed, textState, api, markup, url, allowed, pc, src, workingSegments, segIdx, args, result>>

TagCharAsText ==
    /\ pc = "parse" /\ i <= Len(src) /\ src[i] \notin {"<", ">"} /\ ps.inTag
    /\ ps' = [ ps EXCEPT !.tagName = Append(@, src[i]), !.currentText = Append(@, src[i]) ]
    /\ i' = i + 1
    /\ UNCHANGED <<node, richTagStyle, argb, direction, attributed, textState, api, markup, url, allowed, pc, src, workingSegments, segIdx, args,
                   result, hist>>

\* one loop iteration: inTag
TagChar ==
    /\ pc = "parse" /\ i <= Len(src) /\ src[i] \notin {"<", ">"} /\ ps.inTag
    /\ ps' = [ ps EXCEPT !.tagName = Append(@, src[i]) ]
    /\ i' = i + 1
    /\ UNCHANGED <<node, richTagStyle, argb, direction, attributed, textState, api, markup, url, allowed, pc, src, workingSegments, segIdx, args,
                   result, hist>>

TextCharInAnyMode ==
    /\ pc = "parse" /\ i <= Len(src) /\ src[i] \notin {"<", ">"} /\ ~ps.inTag
    /\ ps' = [ ps EXCEPT !.currentText = Append(@, src[i]) ]
    /\ hist' = HistText(hist, ps, src[i])
    /\ i' = i + 1
    /\ UNCHANGED <<node, richTagStyle, argb, direction, attributed, textState, api, markup, url, allowed, pc, src, workingSegments, segIdx, args, result>>

\* one loop iteration: text
TextChar ==
    /\ pc = "parse" /\ i <= Len(src) /\ src[i] \notin {"<", ">"} /\ ~ps.inTag
    /\ ps' = IF ~ps.inScript /\ ~ps.inStyle
             THEN [ ps EXCEPT !.currentText = Append(@, src[i]) ]
             ELSE ps
    /\ hist' = HistText(hist, ps, src[i])
    /\ i' = i + 1
    /\ UNCHANGED <<node, richTagStyle, argb, direction, attributed, textState, api, markup, url, allowed, pc, src, workingSegments, segIdx, args, result>>

\* the loop is over: the last flushSegment and the return; in parseMarkupWithLinkUrls,
\* the return on no segments
EndOfInput ==
    /\ pc = "parse" /\ i > Len(src)
    /\ ps' = flushSegment(ps, FALSE)
    /\ hist' = HistFlush(hist, ps, ps')
    /\ pc' = IF api = "parseMarkupToSegments" \/ ps'.segments = <<>> THEN "done" ELSE "trim"
    /\ UNCHANGED <<node, richTagStyle, argb, direction, attributed, textState, api, markup, url, allowed, src, i, workingSegments, segIdx, args, result>>

\* buildAttributedString up to its segment loop
TrimSegments ==
    /\ pc = "trim"
    /\ workingSegments' = TrimTrailingBreaks(ps.segments)
    /\ pc' = IF workingSegments' = <<>> THEN "done" ELSE "build"
    /\ segIdx' = 1
    /\ UNCHANGED <<node, richTagStyle, argb, direction, attributed, textState, api, markup, url, allowed, src, i, ps, args, result, hist>>

\* one iteration of the segment loop
BuildSegment ==
    /\ pc = "build" /\ segIdx <= Len(workingSegments)
    /\ result' = BuildIteration(result, workingSegments, segIdx, args)
    /\ hist' = HistBuild(hist, segIdx, result, result')
    /\ segIdx' = segIdx + 1
    /\ UNCHANGED <<node, richTagStyle, argb, direction, attributed, textState, api, markup, url, allowed, pc, src, i, ps, workingSegments, args>>

\* after the loop: the accessibility label and the return
BuildLabel ==
    /\ pc = "build" /\ segIdx > Len(workingSegments)
    /\ result' = [ result EXCEPT
                     !.accessibilityLabel = buildAccessibilityLabel(PlainTextOf(result.fragments)) ]
    /\ pc' = "done"
    /\ UNCHANGED <<node, richTagStyle, argb, direction, attributed, textState, api, markup, url, allowed, src, i, ps, workingSegments, segIdx, args, hist>>

\* parseMarkupToAttributedString: parseMarkupWithLinkUrls has returned
ReturnAttributedString ==
    /\ pc = "done" /\ api = "parseMarkupToAttributedString"
    /\ attributed' = result.fragments
    /\ pc' = "returned"
    /\ UNCHANGED <<node, richTagStyle, argb, direction, textState, api, markup, url, allowed, src, i, ps, workingSegments, segIdx,
                   args, result, hist>>

\* DirectionContext::enterElement(tag, dirAttr, textContent) on the context
EnterElement(tag, dirAttr, textContent) ==
    /\ pc = "call" /\ api = "DirectionContext"
    /\ hist.dirCalls < MaxDirCalls
    /\ ps' = [ ps EXCEPT !.dirContext = enterElement(@, tag, dirAttr, textContent) ]
    /\ hist' = [ hist EXCEPT !.saved = Append(@, ps.dirContext), !.dirCalls = @ + 1 ]
    /\ UNCHANGED <<node, richTagStyle, argb, direction, attributed, textState, api, markup, url, allowed, pc, src, i,
                   workingSegments, segIdx, args, result>>

\* DirectionContext::exitElement(tag) on the context
ExitElement(tag) ==
    /\ pc = "call" /\ api = "DirectionContext"
    /\ hist.dirCalls < MaxDirCalls
    /\ ps' = [ ps EXCEPT !.dirContext = exitElement(@, tag) ]
    /\ hist' = IF hist.saved # <<>>
               THEN [ hist EXCEPT !.saved = Pop(@),
                                  !.lastTrip = << Last(hist.saved),
                                                  exitElement(ps.dirContext, tag) >>,
                                  !.dirCalls = @ + 1 ]
               ELSE [ hist EXCEPT !.emptyExits = @ + 1, !.dirCalls = @ + 1 ]
    /\ UNCHANGED <<node, richTagStyle, argb, direction, attributed, textState, api, markup, url, allowed, pc, src, i,
                   workingSegments, segIdx, args, result>>

NextDirection ==
    \/ \E tag \in DirTags, dirAttr \in DirAttrs, textContent \in DirTexts :
          EnterElement(tag, dirAttr, textContent)
    \/ \E tag \in DirTags : ExitElement(tag)

\* detectDirectionFromText(markup)
CallDetectDirectionFromText ==
    /\ pc = "call" /\ api = "detectDirectionFromText"
    /\ direction' = detectDirectionFromText(markup)
    /\ pc' = "done"
    /\ UNCHANGED <<node, richTagStyle, argb, attributed, textState, api, markup, url, allowed, src, i, ps,
                   workingSegments, segIdx, args, result, hist>>

NextDetect == CallDetectDirectionFromText

\* parseHexColor(markup)
CallParseHexColor ==
    /\ pc = "call" /\ api = "parseHexColor"
    /\ argb' = parseHexColor(markup)
    /\ pc' = "done"
    /\ UNCHANGED <<node, richTagStyle, direction, attributed, textState, api, markup, url, allowed,
                   src, i, ps, workingSegments, segIdx, args, result, hist>>

NextHexColor == CallParseHexColor

\* getStyleFromTagStyles(markup, tagName)
CallGetStyleFromTagStyles(tagName) ==
    /\ pc = "call" /\ api = "getStyleFromTagStyles"
    /\ richTagStyle' = getStyleFromTagStyles(markup, tagName)
    /\ hist' = [ hist EXCEPT !.tagName = tagName,
                             !.styleObj = styleObjOf(markup, tagName) ]
    /\ pc' = "done"
    /\ UNCHANGED <<node, argb, direction, attributed, textState, api, markup, url, allowed,
                   src, i, ps, workingSegments, segIdx, args, result>>

NextTagStyles == \E tagName \in StyleTagNames : CallGetStyleFromTagStyles(tagName)

\* measureContent up to the lock_guard: the multiplier, then _mutex is taken
MeasureLock(t, multiplier) ==
    /\ api = "FabricHTMLTextShadowNode"
    /\ node.measure[t].pc = "idle"
    /\ hist.nodeCalls < MaxNodeCalls
    /\ lock(node.mutex, t).acquired
    /\ node' = [ node EXCEPT
                   !.mutex = lock(node.mutex, t).mutex,
                   !.measure[t].pc = "locked",
                   !.measure[t].fontSizeMultiplier =
                       IF IsPositive(multiplier) THEN multiplier ELSE Float(100) ]
    /\ hist' = [ hist EXCEPT !.nodeCalls = @ + 1 ]
    /\ UNCHANGED <<richTagStyle, argb, direction, attributed, textState, api, markup, url, allowed,
                   pc, src, i, ps, workingSegments, segIdx, args, result>>

\* measureContent: the call of parseHtmlToAttributedString(props.html, fontSizeMultiplier)
MeasureParse(t) ==
    /\ api = "FabricHTMLTextShadowNode"
    /\ node.measure[t].pc = "locked"
    /\ \E parsed \in { parseHtmlToAttributedString(
                             markup, node.measure[t].fontSizeMultiplier, args) } :
           node' = [ node EXCEPT !.linkUrls = parsed.linkUrls,
                                 !.measure[t].localAttributedString = parsed.returned,
                                 !.measure[t].pc = "parsed" ]
    /\ hist' = [ hist EXCEPT !.parses = @ + 1,
                             !.parseOf[t] = hist.parses + 1,
                             !.writer.linkUrls = hist.parses + 1 ]
    /\ UNCHANGED <<richTagStyle, argb, direction, attributed, textState, api, markup, url, allowed,
                   pc, src, i, ps, workingSegments, segIdx, args, result>>

\* measureContent: _attributedString = localAttributedString
MeasureStore(t) ==
    /\ api = "FabricHTMLTextShadowNode"
    /\ node.measure[t].pc = "parsed"
    /\ node' = [ node EXCEPT !.attributedString = node.measure[t].localAttributedString,
                             !.measure[t].pc = "stored" ]
    /\ hist' = [ hist EXCEPT !.writer.attributedString = hist.parseOf[t] ]
    /\ UNCHANGED <<richTagStyle, argb, direction, attributed, textState, api, markup, url, allowed,
                   pc, src, i, ps, workingSegments, segIdx, args, result>>

\* measureContent: the lock_guard goes out of scope; what follows uses the local copy
MeasureUnlock(t) ==
    /\ api = "FabricHTMLTextShadowNode"
    /\ node.measure[t].pc = "stored"
    /\ node' = [ node EXCEPT !.mutex = "none", !.measure[t].pc = "idle" ]
    /\ UNCHANGED <<richTagStyle, argb, direction, attributed, textState, api, markup, url, allowed,
                   pc, src, i, ps, workingSegments, segIdx, args, result, hist>>

\* layout up to the lock_guard
LayoutLock ==
    /\ api = "FabricHTMLTextShadowNode"
    /\ node.layout.pc = "idle"
    /\ hist.nodeCalls < MaxNodeCalls
    /\ lock(node.mutex, LayoutThread).acquired
    /\ node' = [ node EXCEPT !.mutex = lock(node.mutex, LayoutThread).mutex,
                             !.layout.pc = "locked" ]
    /\ hist' = [ hist EXCEPT !.nodeCalls = @ + 1 ]
    /\ UNCHANGED <<richTagStyle, argb, direction, attributed, textState, api, markup, url, allowed,
                   pc, src, i, ps, workingSegments, segIdx, args, result>>

\* layout: localAttributedString = _attributedString
LayoutCopyAttributedString ==
    /\ api = "FabricHTMLTextShadowNode"
    /\ node.layout.pc = "locked"
    /\ node' = [ node EXCEPT !.layout.localAttributedString = node.attributedString,
                             !.layout.pc = "copying" ]
    /\ hist' = [ hist EXCEPT !.copied.attributedString = hist.writer.attributedString ]
    /\ UNCHANGED <<richTagStyle, argb, direction, attributed, textState, api, markup, url, allowed,
                   pc, src, i, ps, workingSegments, segIdx, args, result>>

\* layout: localLinkUrls = _linkUrls
LayoutCopyLinkUrls ==
    /\ api = "FabricHTMLTextShadowNode"
    /\ node.layout.pc = "copying"
    /\ node' = [ node EXCEPT !.layout.localLinkUrls = node.linkUrls,
                             !.layout.pc = "copied" ]
    /\ hist' = [ hist EXCEPT !.copied.linkUrls = hist.writer.linkUrls ]
    /\ UNCHANGED <<richTagStyle, argb, direction, attributed, textState, api, markup, url, allowed,
                   pc, src, i, ps, workingSegments, segIdx, args, result>>

\* layout: the lock_guard goes out of scope
LayoutUnlock ==
    /\ api = "FabricHTMLTextShadowNode"
    /\ node.layout.pc = "copied"
    /\ node' = [ node EXCEPT !.mutex = "none", !.layout.pc = "unlocked" ]
    /\ UNCHANGED <<richTagStyle, argb, direction, attributed, textState, api, markup, url, allowed,
                   pc, src, i, ps, workingSegments, segIdx, args, result, hist>>

\* layout: setStateData(FabricHTMLTextState{localAttributedString, ..., localLinkUrls, ...})
SetStateData ==
    /\ api = "FabricHTMLTextShadowNode"
    /\ node.layout.pc = "unlocked"
    /\ node' = [ node EXCEPT
                   !.state = [ attributedString |-> node.layout.localAttributedString,
                               linkUrls         |-> node.layout.localLinkUrls ],
                   !.layout.pc = "idle" ]
    /\ hist' = [ hist EXCEPT !.published = Append(@, hist.copied) ]
    /\ UNCHANGED <<richTagStyle, argb, direction, attributed, textState, api, markup, url, allowed,
                   pc, src, i, ps, workingSegments, segIdx, args, result>>

NextShadowNode ==
    \/ \E t \in MeasureThreads, multiplier \in NodeMultipliers : MeasureLock(t, multiplier)
    \/ \E t \in MeasureThreads : MeasureParse(t)
    \/ \E t \in MeasureThreads : MeasureStore(t)
    \/ \E t \in MeasureThreads : MeasureUnlock(t)
    \/ LayoutLock
    \/ LayoutCopyAttributedString
    \/ LayoutCopyLinkUrls
    \/ LayoutUnlock
    \/ SetStateData

NextMarkup ==
    \/ Normalize
    \/ OpenAngle
    \/ CloseAngle
    \/ TagChar
    \/ TextChar
    \/ EndOfInput
    \/ TrimSegments
    \/ BuildSegment
    \/ BuildLabel

\* The steps of parseMarkupToSegments alone
NextSegments ==
    \/ OpenAngle
    \/ CloseAngle
    \/ TagChar
    \/ TextChar
    \/ EndOfInput

\* The steps of parseMarkupToAttributedString and of the call it makes
NextAttributed == NextMarkup \/ ReturnAttributedString

NextUrl == CallIsAllowedUrlScheme

NextNormalize == CallNormalizeInterTagWhitespace

NextMapBuffer == GetMapBuffer

NextFrontends ==
    \/ Libxml2StartElement
    \/ LegacyStartAnchor
    \/ FrontendText

---------------------------------------------------------------------------
(* Inputs *)

\* Every concatenation of at most n of the pieces
Inputs(pieces, n) ==
    { Flatten(ts) : ts \in UNION { [1..m -> pieces] : m \in 0..n } }

DefaultArgs ==
    [ baseFontSize          |-> Float(1400),
      fontSizeMultiplier    |-> Float(100),
      allowFontScaling      |-> TRUE,
      maxFontSizeMultiplier |-> Float(0),
      lineHeight            |-> NaN,
      fontWeight            |-> <<>>,
      fontFamily            |-> <<>>,
      fontStyle             |-> <<>>,
      letterSpacing         |-> NaN,
      color                 |-> 0,
      tagStyles             |-> <<>> ]

\* Builder arguments that differ from the defaults in every member but tagStyles
StyledArgs ==
    [ baseFontSize          |-> Float(1600),
      fontSizeMultiplier    |-> Float(150),
      allowFontScaling      |-> TRUE,
      maxFontSizeMultiplier |-> Float(120),
      lineHeight            |-> Float(2400),
      fontWeight            |-> Str("bold"),
      fontFamily            |-> Str("serif"),
      fontStyle             |-> Str("italic"),
      letterSpacing         |-> Float(50),
      color                 |-> -15654349,       \* 0xFF112233 as int32_t
      tagStyles             |-> <<>> ]

\* A call of one of the entry points on a markup of the set, with builder arguments
\* of the set
InitMarkup(apis, markups, argsSet) ==
    /\ api \in apis
    /\ markup \in markups
    /\ args \in IF api = "parseMarkupToSegments" THEN {DefaultArgs} ELSE argsSet
    /\ pc = IF api = "parseMarkupToSegments" THEN "parse" ELSE "normalize"
    /\ src = markup
    /\ i = 1
    /\ ps = InitParser
    /\ workingSegments = <<>>
    /\ segIdx = 1
    /\ result = EmptyResult
    /\ hist = InitHist
    /\ url = <<>>
    /\ allowed = FALSE
    /\ textState = InitTextState
    /\ attributed = <<>>
    /\ direction = "Natural"
    /\ argb = 0
    /\ richTagStyle = DefaultTagStyle
    /\ node = InitShadowNode

BothApis == {"parseMarkupToSegments", "parseMarkupWithLinkUrls"}

---------------------------------------------------------------------------
(* Links and block boundaries *)

MaxLinkPieces == 4

LinkPieces ==
    { Str("x"), Str("<p>"), Str("</p>"), Str("</a>"),
      Str("<a href=\"/u\">"), Str("<a href=\"data:x\">") }

InitLinks ==
    InitMarkup(BothApis, Inputs(LinkPieces, MaxLinkPieces), {DefaultArgs, StyledArgs})

SpecLinks == InitLinks /\ [][NextMarkup]_vars

\* C1: text that appears after a block-close tag is never emitted with isLink = TRUE
\* or a non-empty linkUrl unless an <a> with an accepted href was opened after that
\* block close, whether or not the close matched the top of the tag stack and
\* whatever follows it.
C1_NoLinkAfterBlockClose ==
    \A k \in 1..Len(ps.segments) :
        hist.segs[k].afterClose =>
            ~ps.segments[k].isLink /\ ps.segments[k].linkUrl = <<>>

\* C2: every segment.linkUrl produced by parseMarkupToSegments and every entry of the
\* linkUrls array returned by parseMarkupWithLinkUrls is the empty string or a string
\* that isAllowedUrlScheme accepts.
C2_LinkUrlsAllowed ==
    /\ \A k \in 1..Len(ps.segments) :
          ps.segments[k].linkUrl = <<>> \/ isAllowedUrlScheme(ps.segments[k].linkUrl)
    /\ \A k \in 1..Len(result.linkUrls) :
          result.linkUrls[k] = <<>> \/ isAllowedUrlScheme(result.linkUrls[k])

\* A call returned a linkUrls array with a URL in it and an empty entry, for a markup
\* that holds an href the allowlist rejects
C2_Witness ==
    /\ pc = "done" /\ api = "parseMarkupWithLinkUrls"
    /\ Find(markup, Str("href=\"data:x\""), 1) # 0
    /\ \E k \in 1..Len(result.linkUrls) : result.linkUrls[k] # <<>>
    /\ \E k \in 1..Len(result.linkUrls) : result.linkUrls[k] = <<>>

---------------------------------------------------------------------------
(* The URL allowlist *)

MaxUrlPieces == 3

UrlPieces ==
    { Str(" "), Str("\t"), Str("\f"), Str("http://"), Str("HTTPS://"), Str("mailto:"),
      Str("Tel:"), Str("JavaScript:"), Str("vbscript:"), Str("data:"), Str("#"),
      Str("/"), Str(":"), Str("x") }

\* A call of isAllowedUrlScheme on a string made of the pieces
InitUrl ==
    /\ api = "isAllowedUrlScheme"
    /\ url \in Inputs(UrlPieces, MaxUrlPieces)
    /\ pc = "call"
    /\ allowed = FALSE
    /\ textState = InitTextState
    /\ attributed = <<>>
    /\ direction = "Natural"
    /\ argb = 0
    /\ richTagStyle = DefaultTagStyle
    /\ node = InitShadowNode
    /\ markup = <<>>
    /\ src = <<>>
    /\ i = 1
    /\ ps = InitParser
    /\ workingSegments = <<>>
    /\ segIdx = 1
    /\ args = DefaultArgs
    /\ result = EmptyResult
    /\ hist = InitHist

SpecUrl == InitUrl /\ [][NextUrl]_vars

\* s without its leading bytes of the set
RECURSIVE DropLeading(_, _)
DropLeading(s, set) ==
    IF s # <<>> /\ s[1] \in set THEN DropLeading(Tail(s), set) ELSE s

SafePrefixes == { Str("http://"), Str("https://"), Str("mailto:"), Str("tel:"),
                  Str("#"), Str("/") }

DangerousPrefixes == { Str("javascript:"), Str("vbscript:"), Str("data:") }

HasPrefixIn(t, prefixes) == \E p \in prefixes : StartsWith(t, p)

\* t has a ':' and a '/' before its first ':'
FirstColonAfterFirstSlash(t) ==
    \E c \in 1..Len(t) : /\ t[c] = ":"
                         /\ \A m \in 1..(c - 1) : t[m] # ":"
                         /\ \E m \in 1..(c - 1) : t[m] = "/"

\* C3 as stated: isAllowedUrlScheme(u) is true if and only if u, lowercased and with
\* its leading ASCII whitespace removed, starts with http://, https://, mailto:, tel:,
\* '#' or '/', or has its first ':' after its first '/'.
C3_AllowedIffListed ==
    pc = "done" /\ api = "isAllowedUrlScheme" =>
        LET t == DropLeading(LowerStr(url), {" ", "\t", "\n", "\f", "\r"})
        IN  allowed <=> (HasPrefixIn(t, SafePrefixes) \/ FirstColonAfterFirstSlash(t))

\* C3, amended: isAllowedUrlScheme(u) is true if and only if u, lowercased and with
\* its leading spaces, tabs, line feeds and carriage returns removed, is empty, starts
\* with http://, https://, mailto:, tel:, '#' or '/', holds no ':' at all, or has its
\* first ':' after its first '/'; and every u that starts, after any ASCII whitespace
\* and in any letter case, with javascript:, vbscript: or data: is rejected.
C3_AllowedIffListedOrNoScheme ==
    pc = "done" /\ api = "isAllowedUrlScheme" =>
        LET t == DropLeading(LowerStr(url), {" ", "\t", "\n", "\r"})
            w == DropLeading(LowerStr(url), {" ", "\t", "\n", "\f", "\r", "0B"})
        IN  /\ allowed <=> \/ t = <<>>
                           \/ HasPrefixIn(t, SafePrefixes)
                           \/ \A m \in 1..Len(t) : t[m] # ":"
                           \/ FirstColonAfterFirstSlash(t)
            /\ HasPrefixIn(w, DangerousPrefixes) => ~allowed

\* The call accepted a URL with leading whitespace and an upper-case scheme
C3_Witness ==
    /\ pc = "done" /\ api = "isAllowedUrlScheme"
    /\ url = Str(" HTTPS://x")
    /\ allowed

---------------------------------------------------------------------------
(* Nested anchors *)

MaxNestedPieces == 5

NestedPieces == { Str("x"), Str("<a>"), Str("</a>"), Str("<a href=\"/u\">") }

InitNested ==
    InitMarkup({"parseMarkupWithLinkUrls"}, Inputs(NestedPieces, MaxNestedPieces),
               {DefaultArgs})

SpecNested == InitNested /\ [][NextMarkup]_vars

\* Every tag of the input was closed by its own close tag, innermost first
WellNestedInput == hist.wellNested /\ hist.open = <<>>

\* C4: for well-nested input, a fragment's linkUrl is non-empty if and only if the
\* fragment's text lies inside an open <a> element whose href passed the allowlist,
\* also when the text follows a nested, already closed <a>.
C4_LinkUrlIffInsideLink ==
    pc = "done" /\ WellNestedInput =>
        \A j \in 1..Len(result.fragments) :
            hist.segs[hist.producer[j]].hasText =>
                (result.linkUrls[j] # <<>> <=> hist.segs[hist.producer[j]].inLink)

---------------------------------------------------------------------------
(* Anchors without a usable href *)

MaxAnchorPieces == 3

AnchorPieces ==
    { Str("x"), Str("</a>"), Str("<a>"), Str("<a href=/u>"), Str("<a href=\"\">"),
      Str("<a href=\"data:x\">"), Str("<a data-href=\"/u\">"), Str("<a href=\"/u\">") }

InitAnchors ==
    InitMarkup({"parseMarkupWithLinkUrls"}, Inputs(AnchorPieces, MaxAnchorPieces),
               {DefaultArgs})

SpecAnchors == InitAnchors /\ [][NextMarkup]_vars

\* C5: an <a> tag whose href is missing, unquoted, empty or rejected by the allowlist
\* is treated like an <a> without href: opening it changes neither linkDepth nor
\* linkUrlStack, and, when it is not nested in another link, the text inside it is
\* emitted with isLink = FALSE, an empty linkUrl, no underline and no default link
\* color.
C5_BadHrefIsNoLink ==
    /\ \A k \in 1..Len(hist.open) :
          hist.open[k].tag = Str("a") /\ ~AcceptedHref(hist.open[k].raw)
              => ~hist.open[k].bumped
    /\ \A k \in 1..Len(ps.segments) :
          hist.segs[k].inBadAnchor =>
              /\ ~ps.segments[k].isLink
              /\ ps.segments[k].linkUrl = <<>>
              /\ ~ps.segments[k].isUnderline
    /\ \A j \in 1..Len(result.fragments) :
          hist.segs[hist.producer[j]].inBadAnchor =>
              /\ result.linkUrls[j] = <<>>
              /\ result.fragments[j].textDecorationLineType = "unset"
              /\ result.fragments[j].foregroundColor # ColorFromARGB(DEFAULT_LINK_COLOR)

---------------------------------------------------------------------------
(* Runs and whitespace *)

MaxTextPieces == 4

TextPieces ==
    { Str("x"), Str(" "), Str("<b>"), Str("</b>"), Str("</p>"), Str("<a href=\"/u\">") }

InitText ==
    InitMarkup({"parseMarkupWithLinkUrls"}, Inputs(TextPieces, MaxTextPieces),
               {DefaultArgs, StyledArgs})

SpecText == InitText /\ [][NextMarkup]_vars

\* parseMarkupWithLinkUrls has returned
Returned == pc = "done" /\ api = "parseMarkupWithLinkUrls"

\* C6: the result of parseMarkupWithLinkUrls has exactly one linkUrls entry per
\* emitted fragment, and entry j is the linkUrl of the segment that fragment j was
\* built from, also when segments that are empty after normalization are skipped.
C6_OneLinkUrlPerFragment ==
    /\ Len(result.linkUrls) = Len(result.fragments)
    /\ Len(hist.producer) = Len(result.fragments)
    /\ \A j \in 1..Len(result.fragments) :
          LET k == hist.producer[j]
          IN  /\ k \in 1..Len(workingSegments)
              /\ \A m \in 1..(j - 1) : hist.producer[m] < k
              /\ result.fragments[j].string =
                     NormalizedTextOf(workingSegments[k], k = Len(workingSegments))
              /\ result.linkUrls[j] = workingSegments[k].linkUrl

\* A call returned fewer fragments than segments went into the loop, one of them a link
C6_Witness ==
    /\ Returned
    /\ Len(result.fragments) < Len(workingSegments)
    /\ \E j \in 1..Len(result.linkUrls) : result.linkUrls[j] # <<>>

\* C8: for every segment except the final one, if the segment has
\* followsInlineElement = TRUE and its text begins with horizontal whitespace, the
\* builder emits a fragment for it whose text begins with a single space, whatever
\* follows the whitespace.
C8_GapAfterInlineKept ==
    Returned =>
        \A k \in 1..(Len(workingSegments) - 1) :
            LET segment == workingSegments[k]
            IN  segment.followsInlineElement /\ segment.text[1] \in {" ", "\t"} =>
                    \E j \in 1..Len(result.fragments) :
                        /\ hist.producer[j] = k
                        /\ result.fragments[j].string[1] = " "
                        /\ Len(result.fragments[j].string) > 1 =>
                               result.fragments[j].string[2] \notin {" ", "\t"}

\* C9: whenever parseMarkupWithLinkUrls returns at least one run, the last run's text
\* is non-empty and does not end with a whitespace character, and no returned run
\* has empty text.
C9_LastRunTrimmed ==
    Returned /\ result.fragments # <<>> =>
        /\ \A j \in 1..Len(result.fragments) : result.fragments[j].string # <<>>
        /\ ~IsSpace(Last(Last(result.fragments).string))

\* A call returned runs, and the text of the last segment ended with whitespace
C9_Witness ==
    /\ Returned
    /\ result.fragments # <<>>
    /\ IsSpace(Last(Last(workingSegments).text))

---------------------------------------------------------------------------
(* BiDi isolation and override *)

MaxBidiPieces == 4

BidiPieces ==
    { Str("x"), Str("<bdi>"), Str("</bdi>"), Str("<bdo dir=\"rtl\">"),
      Str("<bdo dir=\"ltr\">"), Str("</bdo>"), Str("<b>") }

InitBidi ==
    InitMarkup({"parseMarkupWithLinkUrls"}, Inputs(BidiPieces, MaxBidiPieces),
               {DefaultArgs})

SpecBidi == InitBidi /\ [][NextMarkup]_vars

BidiBytes == {"E2", "80", "81", "A8", "A9", "AC", "AD", "AE"}

\* The bytes of a text that are not part of a BiDi control character
WithoutControls(text) == SelectSeq(text, LAMBDA c : c \notin BidiBytes)

\* C7: for every <bdi> element and every <bdo dir="rtl"|"ltr"> element closed by its
\* matching close tag, the control character emitted at the open tag (FSI, RLO, LRO)
\* is followed in the concatenated segment text by the matching PDI/PDF, which comes
\* after all text of the element and before any text that follows the element.
C7_BidiControlsClosed ==
    LET text == AllText(ps)
    IN  \A n \in 1..Len(hist.closed) :
            LET e == hist.closed[n]
            IN  /\ e.open + 3 <= e.close
                /\ e.close + 2 <= Len(text)
                /\ SubSeq(text, e.open, e.open + 2) =
                       (IF e.kind = "bdi" THEN FSI ELSE IF e.kind = "rtl" THEN RLO ELSE LRO)
                /\ SubSeq(text, e.close, e.close + 2) =
                       (IF e.kind = "bdi" THEN PDI ELSE PDF)
                \* the source text read before the open tag, before the close tag
                /\ WithoutControls(SubSeq(text, 1, e.open - 1))
                       = SubSeq(hist.srcText, 1, e.srcOpen)
                /\ WithoutControls(SubSeq(text, 1, e.close - 1))
                       = SubSeq(hist.srcText, 1, e.srcClose)

\* A <bdi> or <bdo dir> element with text in it was closed and text followed it
C7_Witness ==
    /\ pc = "done"
    /\ \E n \in 1..Len(hist.closed) :
          /\ hist.closed[n].srcClose > hist.closed[n].srcOpen
          /\ Len(hist.srcText) > hist.closed[n].srcClose

---------------------------------------------------------------------------
(* Order of the text *)

MaxOrderPieces == 3

\* The source text is made of x, y, '>' and the space, none of which the parser
\* inserts; the tags are those that make it insert text or leave text out
OrderPieces ==
    { Str("x"), Str("y"), Str(">"), Str("<"), Str(" "), Str("<li>"), Str("</li>"),
      Str("<bdi>"), Str("<script>"), Str("<script>y</script>") }

InitOrder ==
    InitMarkup({"parseMarkupWithLinkUrls"}, Inputs(OrderPieces, MaxOrderPieces),
               {DefaultArgs})

SpecOrder == InitOrder /\ [][NextMarkup]_vars

\* What the parser inserts: list markers, the list pause period, BiDi controls
InsertedBytes ==
    BidiBytes \cup {"A2", "."} \cup {"0", "1", "2", "3", "4", "5", "6", "7", "8", "9"}

Only(text, bytes) == SelectSeq(text, LAMBDA c : c \in bytes)

\* C10 as stated: the non-whitespace source characters that lie outside tag bodies
\* and outside script/style content appear in the concatenated run text in source
\* order, each exactly once; every other non-whitespace character of the run text
\* is parser-inserted.
C10_SourceTextInOrder ==
    Returned =>
        LET run == PlainTextOf(result.fragments)
        IN  /\ Only(run, {"x", "y", ">"}) = Only(hist.srcText, {"x", "y", ">"})
            /\ \A k \in 1..Len(run) :
                  IsSpace(run[k]) \/ run[k] \in {"x", "y", ">"} \/ run[k] \in InsertedBytes

\* C10, amended: the non-whitespace source characters other than '>' that lie outside
\* tag bodies (a tag body runs from a '<' to the next '>', or to the end of the input)
\* and outside script/style content appear in the concatenated run text in source
\* order, each exactly once; a '>' outside a tag body is dropped; every other
\* non-whitespace character of the run text is parser-inserted.
C10_SourceTextInOrderButGt ==
    Returned =>
        LET run == PlainTextOf(result.fragments)
        IN  /\ Only(run, {"x", "y"}) = Only(hist.srcText, {"x", "y"})
            /\ \A k \in 1..Len(run) :
                  IsSpace(run[k]) \/ run[k] \in {"x", "y"} \/ run[k] \in InsertedBytes

\* A call returned runs for a source text with two different letters and a '>'
\* between them
C10_Witness ==
    /\ Returned
    /\ Only(hist.srcText, {"x", "y", ">"}) \in {Str("x>y"), Str("y>x")}
    /\ Only(PlainTextOf(result.fragments), {"x", "y"}) \in {Str("xy"), Str("yx")}

---------------------------------------------------------------------------
(* Headings *)

MaxHeadingPieces == 4

HeadingPieces ==
    { Str("x"), Str("<h1>"), Str("</h1>"), Str("<h3>"), Str("</h3>"), Str("<b>") }

InitHeadings ==
    InitMarkup(BothApis, Inputs(HeadingPieces, MaxHeadingPieces), {DefaultArgs})

SpecHeadings == InitHeadings /\ [][NextMarkup]_vars

\* The scale the claim gives for each heading, in hundredths
ClaimedScale ==
    [ t \in HeadingTags |->
        IF t = Str("h1") THEN 200 ELSE IF t = Str("h2") THEN 150
        ELSE IF t = Str("h3") THEN 117 ELSE IF t = Str("h4") THEN 100
        ELSE IF t = Str("h5") THEN 83 ELSE 67 ]

\* Positions of the headings in a tag stack
HeadingsOn(stack) == { j \in 1..Len(stack) : stack[j] \in HeadingTags }

Innermost(stack) ==
    stack[CHOOSE j \in HeadingsOn(stack) : \A m \in HeadingsOn(stack) : m <= j]

\* C11: every segment emitted while a heading is on the tag stack is bold and has the
\* fontScale of the innermost heading on the stack (h1 2.0, h2 1.5, h3 1.17, h4 1.0,
\* h5 0.83, h6 0.67); a segment emitted with no heading on the stack has fontScale 1.0.
C11_HeadingStyle ==
    \A k \in 1..Len(ps.segments) :
        IF HeadingsOn(hist.stacks[k]) = {}
        THEN ps.segments[k].fontScale = 100
        ELSE /\ ps.segments[k].isBold
             /\ ps.segments[k].fontScale = ClaimedScale[Innermost(hist.stacks[k])]

\* A parse that emitted a segment inside h1 alone and then one inside h3 nested in h1
C11_Witness ==
    /\ pc = "done" /\ markup = Str("<h1>x<h3>x")
    /\ Len(ps.segments) = 2
    /\ hist.stacks[1] = <<Str("h1")>> /\ ps.segments[1].fontScale = 200
    /\ hist.stacks[2] = <<Str("h1"), Str("h3")>> /\ ps.segments[2].fontScale = 117
    /\ ps.segments[2].isBold

---------------------------------------------------------------------------
(* Lists *)

MaxListPieces == 4

ListPieces ==
    { Str("x"), Str("<ol><li>"), Str("</ol>"), Str("<li>"), Str("<li><li><li><li>"),
      Str("<ul>"), Str("<b>") }

InitLists ==
    InitMarkup({"parseMarkupWithLinkUrls"}, Inputs(ListPieces, MaxListPieces), {DefaultArgs})

SpecLists == InitLists /\ [][NextMarkup]_vars

\* Decimal numerals, as the claim writes them
Numerals ==
    << Str("1"), Str("2"), Str("3"), Str("4"), Str("5"), Str("6"), Str("7"), Str("8"),
       Str("9"), Str("10"), Str("11"), Str("12"), Str("13"), Str("14"), Str("15"),
       Str("16"), Str("17"), Str("18"), Str("19"), Str("20"), Str("21") >>

\* The text the parser appended for the item
ItemText(it) == SubSeq(AllText(ps), it.before + 1, it.end)

EndsWith(s, pat) == Len(s) >= Len(pat) /\ SubSeq(s, Len(s) - Len(pat) + 1, Len(s)) = pat

\* C12: the k-th <li> opened while an <ol> is on top of the list stack is emitted with
\* the marker "k. "; every list counts from 1 and a nested list opened and closed
\* between two items leaves the numbering of the outer list alone.
C12_OrderedMarkers ==
    \A n \in 1..Len(hist.items) :
        LET it == hist.items[n]
            marker == Numerals[it.k] \o Str(". ")
            text == ItemText(it)
        IN  it.ordered =>
              /\ EndsWith(text, marker)
              /\ Len(text) > Len(marker) =>
                    text[Len(text) - Len(marker)] \in {" ", "\n"}

\* The second item of an outer <ol> was numbered 2 after a nested <ol> with one item
\* was opened and closed
C12_Witness ==
    /\ pc = "done" /\ markup = Str("<ol><li><ol><li></ol><li>")
    /\ Len(hist.items) = 3
    /\ hist.items[2].k = 1 /\ hist.items[2].level = 2
    /\ hist.items[3].k = 2 /\ hist.items[3].level = 1
    /\ EndsWith(ItemText(hist.items[3]), Str("2. "))

\* A list reached its tenth item
TenthItem ==
    pc = "done" /\ \E n \in 1..Len(hist.items) :
        /\ hist.items[n].ordered /\ hist.items[n].k = 10
        /\ EndsWith(ItemText(hist.items[n]), Str("\n10. "))

\* Position in AllText of the first byte of the item's marker
MarkerAt(it) ==
    LET marker == IF it.ordered THEN Numerals[it.k] \o Str(". ") ELSE BULLET \o <<" ">>
    IN  it.end - Len(marker) + 1

\* Going back from position p over spaces, the text reaches a newline
RECURSIVE NewlineBefore(_, _)
NewlineBefore(text, p) ==
    IF p < 1 THEN FALSE
    ELSE IF text[p] = " " THEN NewlineBefore(text, p - 1)
    ELSE text[p] = "\n"

\* C13: a list-item marker emitted after earlier text of the document starts on a new
\* line: in the concatenated segment text a newline, followed only by indent spaces,
\* stands between the earlier text and the marker, whether that text is still in
\* currentText or was flushed into a segment by an inline tag.
C13_MarkerOnNewLine ==
    \A n \in 1..Len(hist.items) :
        hist.items[n].before > 0 =>
            NewlineBefore(AllText(ps), MarkerAt(hist.items[n]) - 1)

---------------------------------------------------------------------------
(* Lists in the returned runs *)

MaxRunPieces == 4

\* Unordered lists only, so that the bullets of the returned text are exactly the
\* markers the parser emitted, in order, and a digit is always source text
RunPieces ==
    { Str("x"), Str("1"), Str("<ul><li>"), Str("<li>"), Str("</li>"), Str("</ul>"),
      Str("<br>") }

InitRuns ==
    InitMarkup({"parseMarkupWithLinkUrls"}, Inputs(RunPieces, MaxRunPieces), {DefaultArgs})

SpecRuns == InitRuns /\ [][NextMarkup]_vars

\* The concatenated text of the runs
RunText == PlainTextOf(result.fragments)

BulletsIn(text) == { p \in 1..(Len(text) - 2) : SubSeq(text, p, p + 2) = BULLET }

\* Position of the n-th bullet of the text
NthBullet(text, n) ==
    CHOOSE p \in BulletsIn(text) : Cardinality({ q \in BulletsIn(text) : q <= p }) = n

\* First position of the line that holds position p
LineStart(text, p) ==
    LET nls == { q \in 1..(p - 1) : text[q] = "\n" }
    IN  IF nls = {} THEN 1 ELSE 1 + CHOOSE q \in nls : \A m \in nls : m <= q

\* C14: in the runs parseMarkupWithLinkUrls returns, the marker of a list item at
\* nesting level L >= 1 is preceded on its line by exactly 4 * (L - 1) spaces.
C14_IndentSurvives ==
    (pc = "done" /\ result.fragments # <<>>) =>
        /\ Cardinality(BulletsIn(RunText)) = Len(hist.items)
        /\ \A n \in 1..Len(hist.items) :
              hist.items[n].level >= 1 =>
                 LET p == NthBullet(RunText, n)
                 IN  SubSeq(RunText, LineStart(RunText, p), p - 1)
                        = Spaces(4 * (hist.items[n].level - 1))

\* The markers of the items of a top-level list stand at the start of their line
LevelOneMarkersAtLineStart ==
    (pc = "done" /\ result.fragments # <<>>) =>
        /\ Cardinality(BulletsIn(RunText)) = Len(hist.items)
        /\ \A n \in 1..Len(hist.items) :
              hist.items[n].level = 1 =>
                 LET p == NthBullet(RunText, n)
                 IN  SubSeq(RunText, LineStart(RunText, p), p - 1) = <<>>

Terminators == { ".", "!", "?", ":", ";" }

\* First position after p that holds no space
RECURSIVE SkipSpaces(_, _)
SkipSpaces(text, p) ==
    IF p <= Len(text) /\ text[p] = " " THEN SkipSpaces(text, p + 1) ELSE p

\* The newline at p precedes a list-item marker, at whatever indent
PrecedesMarker(text, p) ==
    text[p] = "\n" /\ SkipSpaces(text, p + 1) \in BulletsIn(text)

\* The non-whitespace byte nearest before p is there and ends no sentence
OpenSentenceBefore(text, p) ==
    LET qs == { q \in 1..(p - 1) : ~IsSpace(text[q]) }
    IN  qs # {} /\ text[CHOOSE q \in qs : \A m \in qs : m <= q] \notin Terminators

\* The text with a '.' before the newlines that call for one
WithPauses(text) ==
    Flatten([ p \in 1..Len(text) |->
                IF PrecedesMarker(text, p) /\ OpenSentenceBefore(text, p)
                THEN <<".", text[p]>> ELSE <<text[p]>> ])

\* C15: accessibilityLabel is the concatenated run text with a '.' inserted immediately
\* before exactly those newlines that precede a list-item marker (at any nesting level)
\* and whose preceding non-whitespace character is none of . ! ? : ; -- nothing else
\* is inserted and nothing is removed.
C15_LabelPauses ==
    (pc = "done" /\ result.fragments # <<>>) =>
        result.accessibilityLabel = WithPauses(RunText)

\* The same for the texts in which no digit follows a newline and every marker stands
\* directly after its newline, with no whitespace before that newline
LabelPausesPlainCase ==
    (/\ pc = "done" /\ result.fragments # <<>>
     /\ \A p \in 1..Len(RunText) :
           RunText[p] = "\n" =>
              /\ p < Len(RunText) => RunText[p + 1] \notin {"1", " "}
              /\ p > 1 => ~IsSpace(RunText[p - 1]))
        => result.accessibilityLabel = WithPauses(RunText)

---------------------------------------------------------------------------
(* Angle brackets *)

\* C16: neither accessibilityLabel nor any run text returned by parseMarkupWithLinkUrls
\* holds a '<' or a '>' byte.
C16_NoAngleBrackets ==
    /\ \A k \in 1..Len(result.accessibilityLabel) :
          result.accessibilityLabel[k] \notin {"<", ">"}
    /\ \A n \in 1..Len(result.fragments) :
          \A k \in 1..Len(result.fragments[n].string) :
              result.fragments[n].string[k] \notin {"<", ">"}

\* A call returned a run and a label for a markup with a '>' outside any tag and a
\* '<' that opens no tag
C16_Witness ==
    /\ Returned /\ markup = Str("x><")
    /\ Len(result.fragments) = 1 /\ result.fragments[1].string = Str("x")
    /\ result.accessibilityLabel = Str("x")

---------------------------------------------------------------------------
(* Inter-tag whitespace *)

MaxSpacePieces == 4

SpacePieces ==
    { Str(" "), Str("\n"), Str("x"), Str(">"), Str("<"), Str("</"), Str("<p>"),
      Str("</p>"), Str("</P a>"), Str("</b>") }

InitNormalize ==
    /\ api = "normalizeInterTagWhitespace"
    /\ markup \in Inputs(SpacePieces, MaxSpacePieces)
    /\ src = markup
    /\ pc = "call"
    /\ url = <<>>
    /\ allowed = FALSE
    /\ textState = InitTextState
    /\ attributed = <<>>
    /\ direction = "Natural"
    /\ argb = 0
    /\ richTagStyle = DefaultTagStyle
    /\ node = InitShadowNode
    /\ i = 1
    /\ ps = InitParser
    /\ workingSegments = <<>>
    /\ segIdx = 1
    /\ args = DefaultArgs
    /\ result = EmptyResult
    /\ hist = InitHist

SpecNormalize == InitNormalize /\ [][NextNormalize]_vars

\* C17: normalizeInterTagWhitespace is idempotent: applied to its own result it
\* returns that result, also for inputs with stray '>', unterminated tags and closing
\* tags with attributes.
C17_NormalizeIdempotent ==
    (api = "normalizeInterTagWhitespace" /\ hist.calls = 2) => src = hist.previous

\* The second call returned, for an input that the first call changed by dropping
\* whitespace before a stray '>' and after a block close tag with an attribute
C17_Witness ==
    /\ api = "normalizeInterTagWhitespace" /\ hist.calls = 2
    /\ markup = Str(" ></P a> ")
    /\ hist.previous = Str("></P a>")
    /\ src = Str("></P a>")

---------------------------------------------------------------------------
(* The link URLs in the state of the Android component *)

MaxSmallUrls == 4
MaxExtraUrls == 2

\* The vector with the given entries, entries[k + 1] being its entry k
VectorOf(entries) ==
    [ size |-> Len(entries),
      at   |-> [ k \in { j \in 0..(Len(entries) - 1) : entries[j + 1] # <<>> }
                   |-> entries[k + 1] ] ]

\* Vectors of at most MaxSmallUrls entries, each empty, "/a" or "/b"
SmallVectors ==
    { VectorOf(f) : f \in UNION { [1..n -> {<<>>, Str("/a"), Str("/b")}] :
                                    n \in 0..MaxSmallUrls } }

\* Vectors of up to UINT16_MAX + 1 + MaxExtraUrls entries, non-empty at a few places
\* around the largest 16-bit index; entry k, if not empty, is "/k"
LargeVectors ==
    { [ size |-> n, at |-> [ k \in { j \in s : j < n } |-> Str("/") \o DecStr(k) ] ] :
        n \in UINT16_MAX..(UINT16_MAX + 1 + MaxExtraUrls),
        s \in { {}, {0, UINT16_MAX, UINT16_MAX + 1}, {1, UINT16_MAX + 2} } }

InitMapBuffer ==
    /\ api = "getMapBuffer"
    /\ textState \in { [ linkUrls |-> v, mapBuffer |-> NoLinkUrlsMap ] :
                        v \in SmallVectors \cup LargeVectors }
    /\ attributed = <<>>
    /\ direction = "Natural"
    /\ argb = 0
    /\ richTagStyle = DefaultTagStyle
    /\ node = InitShadowNode
    /\ pc = "call"
    /\ markup = <<>>
    /\ src = <<>>
    /\ url = <<>>
    /\ allowed = FALSE
    /\ i = 1
    /\ ps = InitParser
    /\ workingSegments = <<>>
    /\ segIdx = 1
    /\ args = DefaultArgs
    /\ result = EmptyResult
    /\ hist = InitHist

SpecMapBuffer == InitMapBuffer /\ [][NextMapBuffer]_vars

\* C18: the link URLs reach the view layer as a map that holds exactly the entries
\* (k -> linkUrls[k]) for the indices k <= 65535 whose URL is not empty: empty slots
\* are left out, no index is remapped, and an index above 65535 is dropped, not
\* wrapped onto a smaller 16-bit key.
C18_LinkUrlsMap ==
    (api = "getMapBuffer" /\ pc = "done") =>
        textState.mapBuffer.entries =
            { <<k, textState.linkUrls.at[k]>> :
                k \in { j \in DOMAIN textState.linkUrls.at : j <= 65535 } }

\* getMapBuffer returned for a vector with URLs at the indices 0, 65535 and 65536
\* and empty slots between them
C18_Witness ==
    /\ api = "getMapBuffer" /\ pc = "done"
    /\ textState.linkUrls.size = 65537
    /\ DOMAIN textState.linkUrls.at = {0, 65535, 65536}
    /\ textState.mapBuffer.entries = { <<0, Str("/0")>>, <<65535, Str("/65535")>> }

---------------------------------------------------------------------------
(* The allowlist in the other frontends *)

MaxHrefPieces == 3

HrefPieces ==
    { Str(" "), Str("http://"), Str("ftp://"), Str("JavaScript:"), Str("data:"),
      Str("/"), Str(":"), Str("x") }

\* One of the two frontends reads <a href="url">x, the url made of the pieces
InitFrontends ==
    /\ api \in {"libxml2StartElement", "parseHtmlToSegments"}
    /\ url \in Inputs(HrefPieces, MaxHrefPieces)
    /\ markup = Str("<a href=\"") \o url \o Str("\">x")
    /\ src = markup
    /\ pc = "call"
    /\ allowed = FALSE
    /\ textState = InitTextState
    /\ attributed = <<>>
    /\ direction = "Natural"
    /\ argb = 0
    /\ richTagStyle = DefaultTagStyle
    /\ node = InitShadowNode
    /\ i = 1
    /\ ps = InitParser
    /\ workingSegments = <<>>
    /\ segIdx = 1
    /\ args = DefaultArgs
    /\ result = EmptyResult
    /\ hist = InitHist

SpecFrontends == InitFrontends /\ [][NextFrontends]_vars

\* C19: the libxml2 frontend and the legacy FabricHTMLParser uphold P2: every non-empty
\* link URL they push on the link stack and emit is accepted by the allowlist
\* predicate isAllowedUrlScheme of the core.
C19_FrontendsUpholdAllowlist ==
    api \in {"libxml2StartElement", "parseHtmlToSegments"} =>
        /\ \A k \in 1..Len(ps.linkUrlStack) :
              ps.linkUrlStack[k] = <<>> \/ isAllowedUrlScheme(ps.linkUrlStack[k])
        /\ \A k \in 1..Len(ps.segments) :
              ps.segments[k].linkUrl = <<>> \/ isAllowedUrlScheme(ps.segments[k].linkUrl)

\* The frontends do refuse what their own list names
FrontendsRefuseListed ==
    \A k \in 1..Len(ps.segments) :
        LET u == LowerStr(ps.segments[k].linkUrl)
        IN  ~StartsWith(u, Str("javascript:")) /\ ~StartsWith(u, Str("data:"))

---------------------------------------------------------------------------
(* Empty results, and parseMarkupToAttributedString *)

MaxBlankPieces == 4

BlankPieces ==
    { Str(" "), Str("x"), Str("<br>"), Str("<b>"), Str("</b>"), Str("</p>") }

InitAttributed ==
    InitMarkup({"parseMarkupWithLinkUrls", "parseMarkupToAttributedString"},
               Inputs(BlankPieces, MaxBlankPieces), {DefaultArgs, StyledArgs})

SpecAttributed == InitAttributed /\ [][NextAttributed]_vars

\* Every byte of the text is whitespace
IsBlank(text) == \A k \in 1..Len(text) : IsSpace(text[k])

\* parseMarkupWithLinkUrls, called directly or by parseMarkupToAttributedString, has
\* returned
LinkUrlsCallOver ==
    \/ api = "parseMarkupWithLinkUrls" /\ pc = "done"
    \/ api = "parseMarkupToAttributedString" /\ pc \in {"done", "returned"}

\* C20: parseMarkupWithLinkUrls returns an empty run list, an empty linkUrls array and
\* an empty accessibilityLabel for the empty input and for every input that yields no
\* segments or only whitespace-only segments; parseMarkupToAttributedString returns
\* exactly the runs of parseMarkupWithLinkUrls for the same arguments.
C20_EmptyAndAttributed ==
    /\ (LinkUrlsCallOver /\ \A k \in 1..Len(ps.segments) : IsBlank(ps.segments[k].text))
          => result = EmptyResult
    /\ (api = "parseMarkupToAttributedString" /\ pc = "returned")
          => attributed = result.fragments

\* parseMarkupToAttributedString returned no run for a markup that yields two segments
\* of whitespace, the first one a line break that is not the last segment
C20_Witness ==
    /\ api = "parseMarkupToAttributedString" /\ pc = "returned"
    /\ markup = Str("<br><b> ")
    /\ Len(ps.segments) = 2
    /\ result = EmptyResult /\ attributed = <<>>

\* parseMarkupToAttributedString returned two runs
TwoRunsReturned ==
    /\ api = "parseMarkupToAttributedString" /\ pc = "returned"
    /\ Len(attributed) = 2 /\ attributed[1].string # attributed[2].string

---------------------------------------------------------------------------
(* The cached style and the stacks *)

\* The style flags of a parser state
StyleFlags(s) ==
    [ scale         |-> s.currentScale,
      bold          |-> s.currentBold,
      italic        |-> s.currentItalic,
      underline     |-> s.currentUnderline,
      strikethrough |-> s.currentStrikethrough,
      link          |-> s.currentLink,
      linkUrl       |-> s.currentLinkUrl,
      parentTag     |-> s.currentParentTag ]

\* The style flags updateStyleFromStack computes from the three stacks
FlagsFromStacks(tagStack, linkDepth, linkUrlStack) ==
    StyleFlags(updateStyleFromStack(
        [ InitParser EXCEPT !.tagStack = tagStack, !.linkDepth = linkDepth,
                            !.linkUrlStack = linkUrlStack ]))

\* The style flags segment k was emitted with
SegmentFlags(k) ==
    [ scale         |-> ps.segments[k].fontScale,
      bold          |-> ps.segments[k].isBold,
      italic        |-> ps.segments[k].isItalic,
      underline     |-> ps.segments[k].isUnderline,
      strikethrough |-> ps.segments[k].isStrikethrough,
      link          |-> ps.segments[k].isLink,
      linkUrl       |-> ps.segments[k].linkUrl,
      parentTag     |-> ps.segments[k].parentTag ]

\* C21: whenever flushSegment emits a segment, the cached style flags (scale, bold,
\* italic, underline, strikethrough, link, linkUrl, parentTag) equal what
\* updateStyleFromStack would compute from tagStack, linkDepth and linkUrlStack at
\* that moment: no segment is emitted with style state that is stale with respect
\* to the stacks.
C21_NoStaleStyle ==
    \A k \in 1..Len(ps.segments) :
        SegmentFlags(k) =
            FlagsFromStacks(hist.stacks[k], hist.links[k].linkDepth,
                            hist.links[k].linkUrlStack)

\* Segments emitted while an element with an accepted href was open carry the
\* flags of the stacks, link included
FreshLinkStyle ==
    /\ pc = "done" /\ Len(ps.segments) = 2
    /\ \A k \in 1..2 :
          /\ hist.links[k].linkDepth > 0
          /\ ps.segments[k].isLink
          /\ SegmentFlags(k) =
                FlagsFromStacks(hist.stacks[k], hist.links[k].linkDepth,
                                hist.links[k].linkUrlStack)

---------------------------------------------------------------------------
(* Close tags that do not match *)

MaxClosePieces == 3

ClosePieces ==
    { Str("x"), Str("<p dir=\"rtl\">"), Str("</p>"), Str("<a href=\"/u\">"), Str("</a>"),
      Str("<bdi>"), Str("</bdi>"), Str("</b>"), Str("</div>") }

InitCloses ==
    InitMarkup(BothApis, Inputs(ClosePieces, MaxClosePieces),
               {DefaultArgs})

SpecCloses == InitCloses /\ [][NextMarkup]_vars

\* The step dispatches a closing tag whose name is not the top of tagStack
UnmatchedClose ==
    /\ pc = "parse" /\ i <= Len(src) /\ src[i] = ">"
    /\ IsClosingOf(ps.tagName)
    /\ (ps.tagStack = <<>> \/ Last(ps.tagStack) # CleanTagOf(ps.tagName))

\* C22: a closing tag whose name differs from the top of tagStack, or that arrives
\* when tagStack is empty, leaves tagStack and the direction context
\* (currentDirection, the three stacks, both depths) unchanged; for inline closing
\* tags linkDepth and linkUrlStack are unchanged as well.
C22_UnmatchedCloseIgnored ==
    [][ UnmatchedClose =>
          /\ ps'.tagStack = ps.tagStack
          /\ ps'.dirContext = ps.dirContext
          /\ isInlineFormattingTag(CleanTagOf(ps.tagName)) =>
                /\ ps'.linkDepth = ps.linkDepth
                /\ ps'.linkUrlStack = ps.linkUrlStack ]_vars

\* </a> was dispatched while <bdi> was the innermost open element of a link that
\* is still open, and the stacks hold what the two open tags put on them
C22_Witness ==
    /\ pc = "done"
    /\ markup = Str("<a href=\"/u\"><bdi></a>")
    /\ ~hist.wellNested
    /\ ps.tagStack = <<Str("a"), Str("bdi")>>
    /\ ps.linkDepth = 1 /\ ps.linkUrlStack = <<Str("/u")>>
    /\ ps.dirContext.isolationDepth = 1
    /\ Len(ps.dirContext.directionStack) = 2

\* A block close was dispatched on an empty tagStack and on another top
UnmatchedBlockClose ==
    /\ pc = "done"
    /\ markup = Str("</p><p dir=\"rtl\"></div>")
    /\ ps.tagStack = <<Str("p")>>
    /\ ps.dirContext.currentDirection = "RightToLeft"

---------------------------------------------------------------------------
(* Input that ends inside a tag *)

\* parseMarkupToSegments has returned and the last '<' of its input had no '>' after it
EndedInsideTag == pc \notin {"normalize", "parse"} /\ ps.inTag

\* C23: if the input ends inside a tag ('<' with no later '>'), the buffered tag body
\* is discarded without being dispatched or emitted as text, and all text accumulated
\* before that '<' is still emitted in a final segment with the style in effect at
\* that point.
C23_UnterminatedTag ==
    EndedInsideTag =>
        LET at == hist.atOpen
            n  == Len(at.segments)
        IN  \* nothing was dispatched after the '<'
            /\ ps.tagStack = at.tagStack /\ ps.listStack = at.listStack
            /\ ps.linkDepth = at.linkDepth /\ ps.linkUrlStack = at.linkUrlStack
            /\ ps.dirContext = at.dirContext
            /\ ps.inScript = at.inScript /\ ps.inStyle = at.inStyle
            \* the segments emitted before the '<' are followed by the text accumulated
            \* before it, and by nothing else
            /\ SubSeq(ps.segments, 1, n) = at.segments
            /\ ps.currentText = <<>>
            /\ IF at.currentText = <<>> THEN Len(ps.segments) = n
               ELSE /\ Len(ps.segments) = n + 1
                    /\ ps.segments[n + 1].text = at.currentText
                    /\ SegmentFlags(n + 1) = StyleFlags(at)
                    /\ ps.segments[n + 1].writingDirection = at.dirContext.currentDirection
                    /\ ps.segments[n + 1].isBdiIsolated = (at.dirContext.isolationDepth > 0)

\* The input "<bdi>x<" ended inside a tag: the text read inside the open <bdi> was
\* emitted with its style
C23_Witness ==
    /\ EndedInsideTag
    /\ src = Str("<bdi>x<")
    /\ Len(ps.segments) = 1
    /\ ps.segments[1].text = FSI \o Str("x")
    /\ ps.segments[1].parentTag = Str("bdi") /\ ps.segments[1].isBdiIsolated

\* The input "x<y" ended inside a tag with the body "y", which is in no segment
TagBodyDiscarded ==
    /\ EndedInsideTag
    /\ src = Str("x<y") /\ ps.tagName = Str("y")
    /\ Len(ps.segments) = 1 /\ ps.segments[1].text = Str("x")

---------------------------------------------------------------------------
(* Script and style content *)

MaxScriptPieces == 3

ScriptPieces ==
    { Str("x"), Str("y"), Str("<script>y"), Str("</script>"), Str("<style>y"),
      Str("</STYLE >"), Str("<li>"), Str("<"), Str(">") }

InitScript ==
    InitMarkup(BothApis, Inputs(ScriptPieces, MaxScriptPieces), {DefaultArgs})

SpecScript == InitScript /\ [][NextMarkup]_vars

\* The greatest element of a non-empty set of positions
MaxOf(set) == CHOOSE k \in set : \A m \in set : m <= k

\* The last '<' and the last '>' before position k of s, 0 if none
LastLt(s, k) == LET ms == {m \in 1..(k - 1) : s[m] = "<"} IN IF ms = {} THEN 0 ELSE MaxOf(ms)
LastGt(s, k) == LET ms == {m \in 1..(k - 1) : s[m] = ">"} IN IF ms = {} THEN 0 ELSE MaxOf(ms)

\* Position k of s lies in a tag body: a '<' before it has no '>' up to k
InTagBody(s, k) == LastLt(s, k) > LastGt(s, k)

\* The body of the tag that the '>' at position g of s ends; empty for a '>' that
\* ends no tag
TagBodyAt(s, g) ==
    IF InTagBody(s, g) THEN SubSeq(s, LastLt(s, g) + 1, g - 1) ELSE <<>>

\* Position k of s comes after a tag named name and before the next closing tag of
\* that name
InMode(s, k, name) ==
    LET tags == {g \in 1..(k - 1) : s[g] = ">" /\ CleanTagOf(TagBodyAt(s, g)) = name}
    IN  tags # {} /\ ~IsClosingOf(TagBodyAt(s, MaxOf(tags)))

InScriptOrStyle(s, k) == InMode(s, k, Str("script")) \/ InMode(s, k, Str("style"))

\* The letters of s[1..n] read as text, in or out of script and style mode
RECURSIVE LettersRead(_, _, _)
LettersRead(s, n, inMode) ==
    IF n = 0 THEN <<>>
    ELSE LettersRead(s, n - 1, inMode)
            \o (IF s[n] \in {"x", "y"} /\ ~InTagBody(s, n) /\ InScriptOrStyle(s, n) = inMode
                THEN <<s[n]>> ELSE <<>>)

\* C24: no source character read while the parser is in script or style mode (after
\* <script> or <style> and before the corresponding closing tag, or up to the end of
\* the input when never closed) appears in any segment text: the letters of the
\* segment text are the letters read outside these modes, and no others.
C24_NoScriptText ==
    pc # "normalize" =>
        Only(AllText(ps), {"x", "y"}) = LettersRead(src, i - 1, FALSE)

\* A script was closed: its y is in no segment, the x after it is
C24_Witness ==
    /\ pc = "done" /\ api = "parseMarkupToSegments"
    /\ markup = Str("<script>y</script>x")
    /\ LettersRead(src, i - 1, TRUE) = Str("y")
    /\ AllText(ps) = Str("x")

\* A script was never closed: text after a close tag of the other mode is still
\* left out
OtherCloseKeepsMode ==
    /\ pc = "done" /\ api = "parseMarkupToSegments"
    /\ markup = Str("<script>y</STYLE >y")
    /\ ps.segments = <<>>

---------------------------------------------------------------------------
(* DirectionContext *)

\* A new DirectionContext, and MaxDirCalls calls of enterElement and exitElement
InitDirection ==
    /\ api = "DirectionContext"
    /\ pc = "call"
    /\ ps = InitParser
    /\ hist = InitHist
    /\ markup = <<>>
    /\ url = <<>>
    /\ allowed = FALSE
    /\ src = <<>>
    /\ i = 1
    /\ workingSegments = <<>>
    /\ segIdx = 1
    /\ args = DefaultArgs
    /\ result = EmptyResult
    /\ textState = InitTextState
    /\ attributed = <<>>
    /\ direction = "Natural"
    /\ argb = 0
    /\ richTagStyle = DefaultTagStyle
    /\ node = InitShadowNode

SpecDirection == InitDirection /\ [][NextDirection]_vars

\* C25: enterElement followed by exitElement is a round trip: after any balanced
\* sequence of enterElement/exitElement calls, currentDirection, isolationDepth,
\* overrideDepth and the three stacks equal their values before the sequence.
\* Every exitElement that answers an enterElement leaves the context that
\* enterElement was called on; a sequence that has answered all its enterElement
\* calls has left the context of the start.
C25_EnterExitRoundTrip ==
    /\ hist.lastTrip # <<>> => hist.lastTrip[2] = hist.lastTrip[1]
    /\ hist.saved = <<>> => ps.dirContext = InitDirectionContext
    /\ hist.saved # <<>> =>
          exitElement(ps.dirContext, Str("span")) = Last(hist.saved)

\* An element entered inside an isolated right-to-left element changed the
\* direction and was left: the context is again that of the outer element
C25_Witness ==
    /\ Len(hist.saved) = 1
    /\ hist.lastTrip # <<>>
    /\ hist.lastTrip[1].currentDirection = "RightToLeft"
    /\ hist.lastTrip[1].isolationDepth = 1
    /\ ps.dirContext = hist.lastTrip[1]
    /\ ps.dirContext # InitDirectionContext

\* The number of TRUE entries of a stack of booleans
TrueCount(stack) == Cardinality({k \in 1..Len(stack) : stack[k]})

\* C26: in every DirectionContext state reachable from the initial state by any
\* sequence of enterElement/exitElement calls (exitElement on an empty stack
\* included): directionStack, isBdiStack and isBdoStack have equal length,
\* isolationDepth is the number of true entries of isBdiStack, overrideDepth is the
\* number of true entries of isBdoStack (so neither depth is ever negative), and
\* exitElement on an empty directionStack changes nothing.
C26_DirectionContextInvariant ==
    LET dc == ps.dirContext
    IN  /\ Len(dc.isBdiStack) = Len(dc.directionStack)
        /\ Len(dc.isBdoStack) = Len(dc.directionStack)
        /\ dc.isolationDepth = TrueCount(dc.isBdiStack)
        /\ dc.overrideDepth = TrueCount(dc.isBdoStack)
        /\ dc.isolationDepth >= 0 /\ dc.overrideDepth >= 0
        /\ dc.directionStack = <<>> =>
              \A tag \in DirTags : exitElement(dc, tag) = dc
        /\ (hist.emptyExits > 0 /\ hist.emptyExits = hist.dirCalls) =>
              dc = InitDirectionContext

\* exitElement was called on the empty stack, an element was entered and left, and
\* two elements are open, a <bdi> and a <bdo>
C26_Witness ==
    LET dc == ps.dirContext
    IN  /\ hist.emptyExits = 1
        /\ hist.lastTrip # <<>>
        /\ dc.isBdiStack = <<TRUE, FALSE>>
        /\ dc.isBdoStack = <<FALSE, TRUE>>
        /\ dc.isolationDepth = 1 /\ dc.overrideDepth = 1

\* In the parser: while every close tag has matched its open tag, text read outside
\* all elements carries the direction in effect before any of them opened
DirectionRestoredAfterClose ==
    hist.wellNested =>
        \A k \in 1..Len(ps.segments) :
            hist.stacks[k] = <<>> =>
                /\ ps.segments[k].writingDirection = "Natural"
                /\ ~ps.segments[k].isBdiIsolated
                /\ ~ps.segments[k].isBdoOverride

\* A right-to-left paragraph was closed and text followed it
TextAfterClosedParagraph ==
    /\ pc = "done" /\ api = "parseMarkupToSegments"
    /\ markup = Str("<p dir=\"rtl\"></p>x")
    /\ Len(ps.segments) = 2
    /\ ps.segments[1].writingDirection = "RightToLeft"
    /\ ps.segments[2].writingDirection = "Natural"

---------------------------------------------------------------------------
(* Direction detection for dir="auto" and <bdi> *)

MaxAutoPieces == 4

\* D7 90 is U+05D0, a Hebrew letter
AutoPieces ==
    { Str("<b dir=\"auto\">"), Str("</b>"), Str("<bdi>"), Str("1</bdi>"), Str("a"),
      <<"D7", "90">> }

InitAuto ==
    InitMarkup({"parseMarkupWithLinkUrls"}, Inputs(AutoPieces, MaxAutoPieces),
               {DefaultArgs})

SpecAuto == InitAuto /\ [][NextMarkup]_vars

\* The tag body opens an element whose direction is detected from its text
OpensAuto(tagName) ==
    LET cleanTag == CleanTagOf(tagName)
        dirAttr  == extractDirAttr(tagName)
    IN  /\ ~IsClosingOf(tagName)
        /\ cleanTag \in ParserBlockTags \/ isInlineFormattingTag(cleanTag)
        /\ IF dirAttr # <<>> THEN LowerStr(dirAttr) = Str("auto") ELSE cleanTag = Str("bdi")

\* The '<' of the first closing tag named tag that ends after position gt of s; the
\* position after the end of s if there is none
OwnEnd(s, gt, tag) ==
    LET ends == {g \in (gt + 1)..Len(s) :
                    /\ s[g] = ">" /\ InTagBody(s, g) /\ LastLt(s, g) > gt
                    /\ IsClosingOf(TagBodyAt(s, g))
                    /\ CleanTagOf(TagBodyAt(s, g)) = tag}
    IN  IF ends = {} THEN Len(s) + 1
        ELSE LastLt(s, CHOOSE g \in ends : \A m \in ends : g <= m)

\* The characters of s[lo..hi] that are outside any <...>
RECURSIVE TextOutsideTags(_, _, _)
TextOutsideTags(s, lo, hi) ==
    IF lo > hi THEN <<>>
    ELSE TextOutsideTags(s, lo, hi - 1)
            \o (IF s[hi] \notin {"<", ">"} /\ ~InTagBody(s, hi) THEN <<s[hi]>> ELSE <<>>)

\* The element's own text: the characters outside any <...> between the open tag
\* that ends at gt and the first following closing tag of the element's name
OwnText(s, gt, tag) == TextOutsideTags(s, gt + 1, OwnEnd(s, gt, tag) - 1)

\* The step dispatches the open tag of an element whose direction is detected and
\* that a closing tag of its name follows
AutoOpenStep ==
    /\ pc = "parse" /\ i <= Len(src) /\ src[i] = ">" /\ ps.inTag
    /\ OpensAuto(ps.tagName)
    /\ OwnEnd(src, i, CleanTagOf(ps.tagName)) <= Len(src)

\* C27: for an element opened with dir="auto" (or a <bdi> without dir), the direction
\* assigned on entry is detectDirectionFromText applied to the element's own text:
\* exactly the characters outside any <...> between the open tag and the first
\* following closing tag whose name is the element's tag name; when that text is
\* empty the direction is left unchanged, and the look-ahead changes neither the
\* main loop index nor any parser state.
C27_AutoDirectionFromOwnText ==
    [][ AutoOpenStep =>
          LET own == OwnText(src, i, CleanTagOf(ps.tagName))
          IN  /\ ps'.dirContext.currentDirection =
                    (IF own = <<>> THEN ps.dirContext.currentDirection
                     ELSE detectDirectionFromText(own))
              \* but for the direction, the step is the dispatch of the tag with
              \* nothing to look ahead at
              /\ i' = i + 1 /\ src' = src
              /\ [ ps' EXCEPT !.dirContext.currentDirection = "Natural" ]
                    = [ DispatchTag(ps, <<>>, 0)
                          EXCEPT !.dirContext.currentDirection = "Natural" ] ]_vars

\* The text of a dir="auto" element that holds a Hebrew letter and no tag was
\* returned as a right-to-left segment
AutoDetectedRightToLeft ==
    /\ pc = "done"
    /\ src = Str("<b dir=\"auto\">") \o <<"D7", "90">> \o Str("</b>")
    /\ Len(ps.segments) = 1
    /\ ps.segments[1].writingDirection = "RightToLeft"

\* The text of a <b dir="auto"> element that holds "1</bdi>" and a Hebrew letter was
\* returned as left-to-right segments
AutoStoppedAtOtherClose ==
    /\ pc = "done"
    /\ src = Str("<b dir=\"auto\">1</bdi>") \o <<"D7", "90">> \o Str("</b>")
    /\ Len(ps.segments) = 2
    /\ \A k \in 1..2 : ps.segments[k].writingDirection = "LeftToRight"

---------------------------------------------------------------------------
(* detectDirectionFromText *)

MaxDetectBytes == 4

\* 'a' and '1'; D7 90 is U+05D0 (Hebrew), C3 80 is U+00C0 (Latin), E2 80 90 is
\* U+2010 (a hyphen), EF AD 90 is U+FB50 (Arabic), F0 90 80 80 is U+10000; FF is
\* no lead byte, 80, 90 and AD are continuation bytes
DetectBytes == { "a", "1", "D7", "90", "C3", "80", "E2", "EF", "AD", "F0", "FF" }

\* A call of detectDirectionFromText on a string of at most MaxDetectBytes bytes
InitDetect ==
    /\ api = "detectDirectionFromText"
    /\ markup \in UNION { [1..m -> DetectBytes] : m \in 0..MaxDetectBytes }
    /\ pc = "call"
    /\ direction = "Natural"
    /\ argb = 0
    /\ richTagStyle = DefaultTagStyle
    /\ node = InitShadowNode
    /\ url = <<>>
    /\ allowed = FALSE
    /\ src = <<>>
    /\ i = 1
    /\ ps = InitParser
    /\ workingSegments = <<>>
    /\ segIdx = 1
    /\ args = DefaultArgs
    /\ result = EmptyResult
    /\ textState = InitTextState
    /\ attributed = <<>>
    /\ hist = InitHist

SpecDetect == InitDetect /\ [][NextDetect]_vars

\* The length of the sequence a lead byte announces; 0 for a byte that is no lead byte
SequenceLength(c) ==
    IF c < 128 THEN 1
    ELSE IF c \div 32 = 6 THEN 2        \* 110xxxxx
    ELSE IF c \div 16 = 14 THEN 3       \* 1110xxxx
    ELSE IF c \div 8 = 30 THEN 4        \* 11110xxx
    ELSE 0

\* The code point of the sequence of n bytes at position k: the payload bits of the
\* lead byte, then six bits of each following byte
RECURSIVE Payload(_, _, _, _)
Payload(text, k, n, acc) ==
    IF n = 0 THEN acc ELSE Payload(text, k + 1, n - 1, acc * 64 + (Ord(text[k]) % 64))

CodePointAt(text, k) ==
    LET c == Ord(text[k])
        n == SequenceLength(c)
        lead == IF n = 1 THEN c ELSE IF n = 2 THEN c % 32 ELSE IF n = 3 THEN c % 16 ELSE c % 8
    IN  Payload(text, k + 1, n - 1, lead)

\* The code points of the text from position k on: bytes that are no lead byte are
\* skipped, a sequence the text ends in the middle of ends the decoding
RECURSIVE CodePoints(_, _)
CodePoints(text, k) ==
    IF k > Len(text) THEN <<>>
    ELSE LET n == SequenceLength(Ord(text[k]))
         IN  IF n = 0 THEN CodePoints(text, k + 1)
             ELSE IF k + n - 1 > Len(text) THEN <<>>
             ELSE <<CodePointAt(text, k)>> \o CodePoints(text, k + n)

\* The strong code points of a text, in order
StrongCodePoints(text) ==
    SelectSeq(CodePoints(text, 1), LAMBDA cp : isStrongRTL(cp) \/ isStrongLTR(cp))

\* C28: detectDirectionFromText returns RTL if and only if the first code point of
\* the UTF-8 input that is strong-RTL or strong-LTR (decoding 1- to 4-byte sequences
\* and skipping each byte that is not a valid lead byte) is strong-RTL; it returns
\* LTR when the first strong code point is strong-LTR or when the input contains no
\* strong code point.
C28_FirstStrongDecides ==
    (api = "detectDirectionFromText" /\ pc = "done") =>
        LET strong == StrongCodePoints(markup)
        IN  /\ direction = "RightToLeft" <=> (strong # <<>> /\ isStrongRTL(strong[1]))
            /\ (strong = <<>> \/ ~isStrongRTL(strong[1])) => direction = "LeftToRight"

\* A stray continuation byte, a digit and a Hebrew letter: right to left
C28_Witness ==
    /\ api = "detectDirectionFromText" /\ pc = "done"
    /\ markup = <<"80", "1", "D7", "90">>
    /\ CodePoints(markup, 1) = <<49, 1488>>
    /\ direction = "RightToLeft"

\* A three-byte Arabic presentation form after a byte that is no lead byte
ThreeByteRightToLeft ==
    /\ api = "detectDirectionFromText" /\ pc = "done"
    /\ markup = <<"FF", "EF", "AD", "90">>
    /\ CodePoints(markup, 1) = <<64336>>
    /\ direction = "RightToLeft"

\* A Latin letter before a Hebrew one, and a text of neutral code points only
LeftToRightCases ==
    /\ api = "detectDirectionFromText" /\ pc = "done"
    /\ markup \in { <<"C3", "80", "D7", "90">>, <<"1", "E2", "80", "90">> }
    /\ direction = "LeftToRight"

---------------------------------------------------------------------------
(* The clean tag name *)

MaxTagPieces == 4

TagPieces ==
    { Str("<b"), Str("<a"), Str("\t"), Str(" "), Str("\n"), Str("href=\"/u\">"),
      Str(">"), Str("x") }

InitTags ==
    InitMarkup({"parseMarkupWithLinkUrls"}, Inputs(TagPieces, MaxTagPieces),
               {DefaultArgs})

SpecTags == InitTags /\ [][NextMarkup]_vars

TagWhitespace == {" ", "\t", "\n", "\r"}

\* The lowercased tag body without its leading '/', up to the first whitespace
\* character of any kind
NameBeforeWhitespace(tagName) ==
    LET lower == LowerStr(tagName)
        name  == IF lower # <<>> /\ lower[1] = "/" THEN Tail(lower) ELSE lower
        stops == {k \in 1..Len(name) : name[k] \in TagWhitespace}
    IN  IF stops = {} THEN name
        ELSE SubSeq(name, 1, (CHOOSE k \in stops : \A m \in stops : k <= m) - 1)

\* The tag body with a space for every tab, newline and carriage return
WrittenWithSpaces(tagName) ==
    [k \in 1..Len(tagName) |-> IF tagName[k] \in TagWhitespace THEN " " ELSE tagName[k]]

\* C29: the clean tag name used for dispatch is the ASCII-lowercased tag body up to,
\* not including, the first whitespace character of any kind (space, tab, newline,
\* carriage return): a tag whose name is separated from its attributes by a tab or
\* newline is dispatched exactly like the same tag written with a space.
C29_CleanTagAtAnyWhitespace ==
    (pc = "parse" /\ i <= Len(src) /\ src[i] = ">" /\ ps.inTag) =>
        /\ CleanTagOf(ps.tagName) = NameBeforeWhitespace(ps.tagName)
        /\ DispatchTag(ps, src, i)
              = DispatchTag([ ps EXCEPT !.tagName = WrittenWithSpaces(@) ], src, i)

\* With a space after the tag name, the anchor is a link
SpaceSeparatedAnchor ==
    /\ pc = "done"
    /\ src = Str("<a href=\"/u\">x")
    /\ Len(ps.segments) = 1
    /\ ps.segments[1].isLink /\ ps.segments[1].linkUrl = Str("/u")

\* With a newline after the tag name, the same anchor is not dispatched: its text
\* is plain
NewlineSeparatedAnchor ==
    /\ pc = "done"
    /\ src = Str("<a\nhref=\"/u\">x")
    /\ Len(ps.segments) = 1
    /\ ~ps.segments[1].isLink /\ ps.segments[1].linkUrl = <<>>
    /\ ps.tagStack = <<>>

---------------------------------------------------------------------------
(* Deeply nested lists *)

MaxListDepth == 102

\* n copies of a string
RECURSIVE Repeat(_, _)
Repeat(s, n) == IF n = 0 THEN <<>> ELSE Repeat(s, n - 1) \o s

\* Two items in the innermost of up to MaxListDepth nested lists
DeepLists ==
    { Repeat(open, n) \o Str("<li>x<li>") :
        open \in {Str("<ul>"), Str("<ol>")}, n \in 0..MaxListDepth }

InitDeepLists == InitMarkup({"parseMarkupToSegments"}, DeepLists, {DefaultArgs})

SpecDeepLists == InitDeepLists /\ [][NextSegments]_vars

\* The number of spaces text begins with
LeadingSpaces(text) ==
    LET other == {k \in 1..Len(text) : text[k] # " "}
    IN  IF other = {} THEN Len(text) ELSE (CHOOSE k \in other : \A m \in other : k <= m) - 1

\* What the n-th <li> appended, without the newline that ends the text before it
AppendedByItem(n) ==
    LET added == SubSeq(AllText(ps), hist.items[n].before + 1, hist.items[n].end)
    IN  IF added # <<>> /\ added[1] = "\n" THEN Tail(added) ELSE added

\* C30: when <li> opens with n >= 1 lists on the list stack, parseMarkupToSegments
\* appends exactly 4 * min(n - 1, 100) spaces before the marker, so the indentation
\* added per list item never exceeds 400 spaces however deeply lists are nested.
C30_IndentCapped ==
    pc \in {"parse", "done", "trim"} =>
        \A n \in 1..Len(hist.items) :
            LET item   == hist.items[n]
                level  == IF item.level - 1 < 100 THEN item.level - 1 ELSE 100
                added  == AppendedByItem(n)
                marker == IF item.ordered THEN DecStr(item.k) \o Str(". ")
                          ELSE BULLET \o <<" ">>
            IN  item.level >= 1 =>
                    /\ added = Spaces(4 * level) \o marker
                    /\ LeadingSpaces(added) = 4 * level
                    /\ LeadingSpaces(added) <= 400

\* Two items were opened with 102 lists on the list stack, and each got 400 spaces
C30_Witness ==
    /\ pc = "done" /\ api = "parseMarkupToSegments"
    /\ Len(ps.listStack) = 102
    /\ Len(hist.items) = 2
    /\ \A n \in 1..2 : hist.items[n].level = 102 /\ LeadingSpaces(AppendedByItem(n)) = 400

\* An item opened with 100 lists on the list stack got 396 spaces
BelowTheCap ==
    /\ pc = "done" /\ api = "parseMarkupToSegments"
    /\ Len(ps.listStack) = 100
    /\ Len(hist.items) = 2
    /\ LeadingSpaces(AppendedByItem(2)) = 396

---------------------------------------------------------------------------
(* parseHexColor *)

\* A direct call of the function named, on one of the strings
InitCall(name, strings) ==
    /\ api = name
    /\ markup \in strings
    /\ pc = "call"
    /\ url = <<>>
    /\ allowed = FALSE
    /\ src = <<>>
    /\ i = 1
    /\ ps = InitParser
    /\ workingSegments = <<>>
    /\ segIdx = 1
    /\ args = DefaultArgs
    /\ result = EmptyResult
    /\ textState = InitTextState
    /\ attributed = <<>>
    /\ direction = "Natural"
    /\ argb = 0
    /\ richTagStyle = DefaultTagStyle
    /\ node = InitShadowNode
    /\ hist = InitHist

MaxHexPieces == 5

\* '#', digits, letters of both cases, and what strtoul accepts beside digits: white
\* space, a sign, a 0x prefix; 'g' is no digit
HexPieces == { Str("#"), Str("12"), Str("aB"), Str("c"), Str("g"), Str(" "), Str("-"), Str("0x") }

InitHexColor == InitCall("parseHexColor", Inputs(HexPieces, MaxHexPieces))

SpecHexColor == InitHexColor /\ [][NextHexColor]_vars

\* '#' followed by exactly 3 or exactly 6 hexadecimal digits
IsHexColor(s) ==
    /\ Len(s) \in {4, 7}
    /\ s[1] = "#"
    /\ \A k \in 2..Len(s) : HexDigitOf(s[k]) >= 0

\* 0xFF000000 | RGB as an int32_t, each digit of the 3-digit form doubled
ExpectedColor(s) ==
    LET d(k) == HexDigitOf(s[k])
        rgb  == IF Len(s) = 4
                THEN 17 * d(2) * 65536 + 17 * d(3) * 256 + 17 * d(4)
                ELSE (16 * d(2) + d(3)) * 65536 + (16 * d(4) + d(5)) * 256
                     + 16 * d(6) + d(7)
    IN  rgb - 16777216

\* C31: parseHexColor returns a non-zero value only for '#' followed by exactly 3 or
\* exactly 6 hexadecimal digits, and then 0xFF000000 | RGB with the 3-digit form
\* doubled; for every other string (a wrong length, a byte that is no hexadecimal
\* digit anywhere, a sign, white space, a 0x prefix) it returns 0.
C31_HexColorStrict ==
    pc = "done" =>
        argb = IF IsHexColor(markup) THEN ExpectedColor(markup) ELSE 0

\* On the well-formed strings the value is the claimed one
WellFormedHexColor ==
    pc = "done" /\ IsHexColor(markup) => argb = ExpectedColor(markup) /\ argb # 0

\* Reached: six characters that end in a byte that is no digit give a colour
HexColorWithTrailingByte ==
    pc = "done" /\ markup = Str("#12aBcg") /\ argb = 76476 - 16777216

---------------------------------------------------------------------------
(* getStyleFromTagStyles *)

MaxStylePieces == 4

\* The key "p" with the brace that opens its object; braces; braces inside double-
\* and single-quoted strings, one of them after an escaped delimiter; two members
StylePieces ==
    { Str("\"p\":{"), Str("{"), Str("}"), Str("\"}\""), Str("'{'"), Str("\"a\\\"}\""),
      Str("\"color\":\"#F00\","), Str("\"fontStyle\":\"italic\"") }

InitTagStyles == InitCall("getStyleFromTagStyles", Inputs(StylePieces, MaxStylePieces))

SpecTagStyles == InitTagStyles /\ [][NextTagStyles]_vars

\* The delimiter of the quoted string that is open once the byte at k has been read,
\* "" when none is, for a reading that starts after the byte at from: a quote of
\* either kind opens a string, and the same quote ends it unless a backslash stands
\* right before it
RECURSIVE OpenQuote(_, _, _)
OpenQuote(s, from, k) ==
    IF k <= from THEN ""
    ELSE LET before == OpenQuote(s, from, k - 1)
         IN  IF before = "" THEN (IF s[k] \in {"\"", "'"} THEN s[k] ELSE "")
             ELSE IF s[k] = before /\ s[k - 1] # "\\" THEN ""
             ELSE before

\* The braces after from that stand outside quoted strings
BracesOutside(s, from, brace) ==
    {k \in (from + 1)..Len(s) : s[k] = brace /\ OpenQuote(s, from, k) = ""}

\* The positions at which the '{' at from is matched: as many '}' as '{' outside
\* quoted strings, the one at from included
MatchingEnds(s, from) ==
    {k \in BracesOutside(s, from, "}") :
        Cardinality({j \in BracesOutside(s, from, "}") : j <= k})
            = 1 + Cardinality({j \in BracesOutside(s, from, "{") : j <= k})}

\* The object the '{' at from opens, <<>> when it has no matching '}'
MatchedObject(s, from) ==
    IF MatchingEnds(s, from) = {} THEN <<>>
    ELSE SubSeq(s, from, CHOOSE k \in MatchingEnds(s, from) :
                             \A m \in MatchingEnds(s, from) : k <= m)

\* The same blob with every brace inside a quoted string replaced by another byte
WithoutQuotedBraces(s, from) ==
    [k \in 1..Len(s) |->
        IF k > from /\ s[k] \in {"{", "}"} /\ OpenQuote(s, from, k) # "" THEN "x" ELSE s[k]]

\* The '{' that follows the tag key, 0 when there is no key or no '{'
BraceAfterKey(tagStyles, tagName) ==
    LET tagPos == Find(tagStyles, <<"\"">> \o tagName \o <<"\"">>, 1)
    IN  IF tagPos = 0 THEN 0 ELSE FindChar(tagStyles, "{", tagPos)

\* C32: getStyleFromTagStyles returns the all-unset style record whenever the '{'
\* that follows the tag key has no matching '}' when braces are counted only outside
\* single- or double-quoted strings (a delimiter right after a backslash does not end
\* a string); braces inside quoted strings never change the extent of the matched
\* object: it is the extent the blob has with those braces replaced by other bytes.
C32_StringAwareBraceMatch ==
    pc = "done" /\ hist.tagName # <<>> /\ BraceAfterKey(markup, hist.tagName) # 0 =>
        LET from == BraceAfterKey(markup, hist.tagName)
            obj  == hist.styleObj
        IN  /\ MatchedObject(markup, from) = <<>> => richTagStyle = DefaultTagStyle
            /\ obj.found <=> MatchedObject(markup, from) # <<>>
            /\ obj.found => obj.styleObj = MatchedObject(markup, from)
            /\ Len(obj.styleObj) = Len(MatchedObject(WithoutQuotedBraces(markup, from), from))

\* Reached: the only '}' after the key's '{' stands inside a quoted string, after an
\* escaped delimiter, and the style returned is the unset one
C32_Witness ==
    /\ pc = "done"
    /\ hist.tagName = Str("p")
    /\ markup = Str("\"p\":{\"color\":\"#F00\",\"a\\\"}\"")
    /\ richTagStyle = DefaultTagStyle

\* Reached: a quoted '}' before the matching one leaves the members after it in the object
QuotedBraceInsideObject ==
    /\ pc = "done"
    /\ hist.tagName = Str("p")
    /\ markup = Str("\"p\":{\"}\"\"color\":\"#F00\",}")
    /\ richTagStyle = [ DefaultTagStyle EXCEPT !.color = 16711680 - 16777216 ]

---------------------------------------------------------------------------
(* Tag-style overrides in the builder *)

MaxStyledPieces == 3

StyledPieces ==
    { Str("x"), Str("<a href=\"/u\">"), Str("<a href=\"javascript:x\">"), Str("</a>"),
      Str("<b>"), Str("<i>"), Str("</p>") }

\* A tagStyles blob: <b> is red and italic, <i> is not italic; no entry for <a>
StyleBlob == Str("{\"b\":{\"color\":\"#F00\",\"fontStyle\":\"italic\"},\"i\":{\"fontStyle\":\"normal\"}}")

\* The default and the styled builder arguments, each without and with the blob
InitStyled ==
    InitMarkup({"parseMarkupWithLinkUrls"}, Inputs(StyledPieces, MaxStyledPieces),
               { DefaultArgs, StyledArgs,
                 [ DefaultArgs EXCEPT !.tagStyles = StyleBlob ],
                 [ StyledArgs EXCEPT !.tagStyles = StyleBlob ] })

SpecStyled == InitStyled /\ [][NextMarkup]_vars

\* What StyleBlob sets for a tag, read off the blob
BlobColor(tagStyles, tag) ==
    IF tagStyles = StyleBlob /\ tag = Str("b") THEN 16711680 - 16777216 ELSE 0

BlobFontStyle(tagStyles, tag) ==
    IF tagStyles = StyleBlob /\ tag = Str("b") THEN Str("italic")
    ELSE IF tagStyles = StyleBlob /\ tag = Str("i") THEN Str("normal")
    ELSE <<>>

\* The segment fragment j was built from
ProducerOf(j) == workingSegments[hist.producer[j]]

\* C33: a fragment's foreground color is the tag-style color when that is non-zero;
\* otherwise DEFAULT_LINK_COLOR exactly when segment.isLink; otherwise the caller
\* color when non-zero; otherwise none.  A fragment whose text stands in an <a>
\* whose href failed the allowlist, outside any accepted link, never has the default
\* link color.
C33_ColorPriority ==
    \A j \in 1..Len(result.fragments) :
        LET segment  == ProducerOf(j)
            tagColor == BlobColor(args.tagStyles, segment.parentTag)
            expected == IF tagColor # 0 THEN tagColor
                        ELSE IF segment.isLink THEN DEFAULT_LINK_COLOR
                        ELSE args.color
        IN  /\ result.fragments[j].foregroundColor =
                   IF expected # 0 THEN ColorFromARGB(expected) ELSE UnsetColor
            /\ hist.segs[hist.producer[j]].inBadAnchor =>
                   result.fragments[j].foregroundColor # ColorFromARGB(DEFAULT_LINK_COLOR)

\* Reached: inside an accepted link the text of <b> has the blob's red, though the
\* segment is a link and the caller gave a color
C33_Witness ==
    /\ Returned
    /\ args = [ StyledArgs EXCEPT !.tagStyles = StyleBlob ]
    /\ markup = Str("<a href=\"/u\"><b>x")
    /\ Len(result.fragments) = 1
    /\ ProducerOf(1).isLink
    /\ result.fragments[1].foregroundColor = ColorFromARGB(16711680 - 16777216)

\* Reached: the text of an accepted link has the default link color before the
\* caller's
LinkColorBeforeCallerColor ==
    /\ Returned
    /\ args = StyledArgs
    /\ markup = Str("<a href=\"/u\">x")
    /\ result.fragments[1].foregroundColor = ColorFromARGB(DEFAULT_LINK_COLOR)

\* Reached: the text of an <a> whose href the allowlist rejects has the caller color
RejectedHrefHasCallerColor ==
    /\ Returned
    /\ args = StyledArgs
    /\ markup = Str("<a href=\"javascript:x\">x")
    /\ hist.segs[1].inBadAnchor
    /\ result.fragments[1].foregroundColor = ColorFromARGB(StyledArgs.color)

\* C34: when the tag-style override for a fragment's parentTag sets fontStyle, that
\* value alone decides whether the fragment is italic ("italic" gives italic, any
\* other value gives not italic); when the override does not set it the segment's
\* isItalic applies, and when that is false the caller's fontStyle.
C34_TagFontStyleDecides ==
    \A j \in 1..Len(result.fragments) :
        LET segment      == ProducerOf(j)
            tagFontStyle == BlobFontStyle(args.tagStyles, segment.parentTag)
            italic       == IF tagFontStyle # <<>> THEN tagFontStyle = Str("italic")
                            ELSE IF segment.isItalic THEN TRUE
                            ELSE args.fontStyle = Str("italic")
        IN  result.fragments[j].fontStyle = IF italic THEN "Italic" ELSE "unset"

\* Reached: the override sets "normal" for <i>, the caller's fontStyle is empty, and
\* the text of <i> is not italic
TagFontStyleNormal ==
    /\ Returned
    /\ args = [ DefaultArgs EXCEPT !.tagStyles = StyleBlob ]
    /\ markup = Str("<i>x")
    /\ ProducerOf(1).isItalic
    /\ result.fragments[1].fontStyle = "unset"

\* Reached: the same override and text with the caller's fontStyle "italic": the
\* fragment is italic
TagFontStyleNormalCallerItalic ==
    /\ Returned
    /\ args = [ StyledArgs EXCEPT !.tagStyles = StyleBlob ]
    /\ markup = Str("<i>x")
    /\ result.fragments[1].fontStyle = "Italic"

---------------------------------------------------------------------------
(* The shadow node's cache under concurrent measureContent and layout *)

\* props.html: empty, a link, an anchor whose href the allowlist rejects
NodeHtmls == { <<>>, Str("<a href=\"/u\">x"), Str("<a href=\"javascript:x\">x") }

InitNode == InitCall("FabricHTMLTextShadowNode", NodeHtmls)

SpecNode == InitNode /\ [][NextShadowNode]_vars

\* The pairs a single parse of props.html leaves in the cache
ParsedPairs ==
    { [ attributedString |-> parseHtmlToAttributedString(markup, m, args).returned,
        linkUrls         |-> parseHtmlToAttributedString(markup, m, args).linkUrls ] :
      m \in { Float(100), Float(150) } }

\* C35: under any interleaving of measureContent calls and layout calls on the same
\* node, the attributedString and the linkUrls of every state layout publishes were
\* written by one parse (or are both those the node was constructed with), never the
\* attributed string of one parse with the link URLs of another: a thread reads or
\* writes the cached members only while it holds _mutex.
C35_PublishedPairFromOneParse ==
    /\ \A k \in 1..Len(hist.published) :
          hist.published[k].attributedString = hist.published[k].linkUrls
    /\ node.state \in ParsedPairs \union { InitShadowNode.state }
    /\ node.layout.pc = "unlocked" =>
          hist.copied.attributedString = hist.copied.linkUrls
    /\ \A t \in MeasureThreads :
          node.measure[t].pc \in {"locked", "parsed", "stored"} => node.mutex = t
    /\ node.layout.pc \in {"locked", "copying", "copied"} => node.mutex = LayoutThread

\* Reached: layout publishes the pair of the first parse after a second parse, with
\* another multiplier, has already replaced it in the cache
C35_Witness ==
    /\ Len(hist.published) = 1
    /\ hist.published[1] = [ attributedString |-> 1, linkUrls |-> 1 ]
    /\ hist.writer = [ attributedString |-> 2, linkUrls |-> 2 ]
    /\ node.state.linkUrls = <<Str("/u")>>
    /\ node.state.attributedString # node.attributedString

\* Reached: a measuring thread is between its two writes while the other and layout
\* have begun their calls and wait for _mutex
WaitingForMutex ==
    /\ node.mutex = "measure1"
    /\ node.measure["measure1"].pc = "parsed"
    /\ hist.writer.linkUrls # hist.writer.attributedString
    /\ hist.parses = 2

---------------------------------------------------------------------------
(* The link stack *)

MaxStackPieces == 4

\* Anchors with an accepted href, with a href of one space (no scheme: accepted) and
\* with an empty href; the close tags that pop or reset the link state
StackPieces ==
    { Str("x"), Str("</p>"), Str("</a>"), Str("<a href=\"/u\">"), Str("<a href=\" \">"),
      Str("<a href=\"\">") }

InitStack ==
    InitMarkup({"parseMarkupToSegments"}, Inputs(StackPieces, MaxStackPieces), {DefaultArgs})

SpecStack == InitStack /\ [][NextSegments]_vars

\* C36: at every point of a parse linkDepth equals the size of linkUrlStack and is
\* never negative, and every URL on the stack is non-empty; every emitted segment
\* has isLink = TRUE exactly when its linkUrl is non-empty.
C36_LinkDepthIsStackSize ==
    /\ ps.linkDepth = Len(ps.linkUrlStack)
    /\ ps.linkDepth >= 0
    /\ \A k \in 1..Len(ps.linkUrlStack) : ps.linkUrlStack[k] # <<>>
    /\ ps.currentLink <=> ps.currentLinkUrl # <<>>
    /\ \A k \in 1..Len(ps.segments) :
          ps.segments[k].isLink <=> ps.segments[k].linkUrl # <<>>

\* Reached: two links were open and the inner one is closed; the text before the
\* close was emitted as a link to the inner URL, and the outer URL is left on the stack
C36_Witness ==
    /\ pc = "done"
    /\ markup = Str("<a href=\"/u\"><a href=\" \">x</a>")
    /\ ps.linkDepth = 1
    /\ ps.linkUrlStack = <<Str("/u")>>
    /\ ps.currentLink /\ ps.currentLinkUrl = Str("/u")
    /\ Len(ps.segments) = 1
    /\ ps.segments[1].isLink /\ ps.segments[1].linkUrl = Str(" ")

\* Reached: </a> on an empty link stack leaves linkDepth at 0
CloseOnEmptyLinkStack ==
    /\ pc = "done"
    /\ markup = Str("<a href=\"\">x</a>x")
    /\ ps.linkDepth = 0
    /\ Len(ps.segments) = 2
    /\ ~ps.segments[1].isLink /\ ps.segments[1].linkUrl = <<>>

---------------------------------------------------------------------------
(* The direction stack and the tag stack *)

MaxMirrorPieces == 4

MirrorPieces ==
    { Str("x"), Str("<bdi>"), Str("</bdi>"), Str("<bdo>"), Str("</bdo>"), Str("<p>"),
      Str("</p>") }

InitMirror ==
    InitMarkup({"parseMarkupToSegments"}, Inputs(MirrorPieces, MaxMirrorPieces),
               {DefaultArgs})

SpecMirror == InitMirror /\ [][NextSegments]_vars

\* C37: directionStack always has the length of tagStack, entry by entry for the
\* same element, so that a segment's isBdiIsolated is TRUE exactly when a bdi is on
\* tagStack when it is emitted, and its isBdoOverride exactly when a bdo is.
C37_DirectionStackMirrorsTagStack ==
    /\ Len(ps.dirContext.directionStack) = Len(ps.tagStack)
    /\ Len(ps.dirContext.isBdiStack) = Len(ps.tagStack)
    /\ Len(ps.dirContext.isBdoStack) = Len(ps.tagStack)
    /\ \A j \in 1..Len(ps.tagStack) :
          /\ ps.dirContext.isBdiStack[j] <=> ps.tagStack[j] = Str("bdi")
          /\ ps.dirContext.isBdoStack[j] <=> ps.tagStack[j] = Str("bdo")
    /\ \A k \in 1..Len(ps.segments) :
          /\ ps.segments[k].isBdiIsolated <=>
                \E j \in 1..Len(hist.stacks[k]) : hist.stacks[k][j] = Str("bdi")
          /\ ps.segments[k].isBdoOverride <=>
                \E j \in 1..Len(hist.stacks[k]) : hist.stacks[k][j] = Str("bdo")

\* Reached: what <bdi> holds inside <p> is emitted isolated, and the text after
\* </bdi>, still inside <p>, is not
C37_Witness ==
    /\ pc = "done"
    /\ markup = Str("<p><bdi></bdi>x")
    /\ ps.tagStack = <<Str("p")>>
    /\ Len(ps.dirContext.directionStack) = 1
    /\ Len(ps.segments) = 2
    /\ ps.segments[1].isBdiIsolated
    /\ ~ps.segments[2].isBdiIsolated

\* Reached: a close tag that matches nothing leaves both stacks alone, and the text
\* after it is still an override
UnmatchedCloseKeepsBothStacks ==
    /\ pc = "done"
    /\ markup = Str("<bdo></p></bdi>x")
    /\ ps.tagStack = <<Str("bdo")>>
    /\ Len(ps.dirContext.directionStack) = 1
    /\ ps.segments[Len(ps.segments)].isBdoOverride

---------------------------------------------------------------------------
(* Balance of the BiDi control characters *)

MaxBalancePieces == 4

BalancePieces ==
    { Str("x"), Str("<bdi>"), Str("</bdi>"), Str("<bdo dir=\"rtl\">"), Str("<bdo>"),
      Str("</bdo>") }

InitBalance ==
    InitMarkup({"parseMarkupToSegments"}, Inputs(BalancePieces, MaxBalancePieces),
               {DefaultArgs})

SpecBalance == InitBalance /\ [][NextSegments]_vars

\* The positions of a control character in a text
ControlsAt(text, control) ==
    {k \in 1..(Len(text) - 2) : SubSeq(text, k, k + 2) = control}

\* Up to every closing control there are no more closing controls than opening ones
ClosedAfterOpened(text, closing, openings) ==
    \A k \in ControlsAt(text, closing) :
        Cardinality({j \in ControlsAt(text, closing) : j <= k})
            <= Cardinality({j \in UNION {ControlsAt(text, o) : o \in openings} : j < k})

\* C38: the BiDi control characters in the concatenated segment text are balanced
\* for any input: every PDI is preceded by an earlier FSI that it matches and every
\* PDF by an earlier RLO or LRO that it matches.
C38_BidiControlsBalanced ==
    LET text == AllText(ps)
    IN  /\ ClosedAfterOpened(text, PDI, {FSI})
        /\ ClosedAfterOpened(text, PDF, {RLO, LRO})

\* Reached: </bdi> with no <bdi> open puts a PDI in the text
PdiWithoutIsolate ==
    /\ pc = "done"
    /\ markup = Str("</bdi>x")
    /\ AllText(ps) = PDI \o Str("x")

\* Reached: <bdo> without dir emits no opening control, and its </bdo> a PDF
PdfWithoutOverride ==
    /\ pc = "done"
    /\ markup = Str("<bdo>x</bdo>")
    /\ AllText(ps) = Str("x") \o PDF

\* Reached: the PDF of an inner <bdo> without dir ends the override of the outer
\* <bdo dir="rtl"> before the outer element's text x, which is flagged as overridden
PdfEndsOuterOverride ==
    /\ pc = "done"
    /\ markup = Str("<bdo dir=\"rtl\"><bdo></bdo>x")
    /\ AllText(ps) = RLO \o PDF \o Str("x")
    /\ ps.segments[Len(ps.segments)].isBdoOverride

---------------------------------------------------------------------------
(* The forms of the line-break tag *)

MaxBreakPieces == 4

BreakPieces ==
    { Str("x"), Str("<br>"), Str("<br/>"), Str("<br />"), Str("<BR>"), Str("<Br/>") }

InitBreak ==
    InitMarkup({"parseMarkupToSegments"}, Inputs(BreakPieces, MaxBreakPieces),
               {DefaultArgs})

SpecBreak == InitBreak /\ [][NextSegments]_vars

\* The lower-cased tag names stripHtmlTags takes for a line break
BreakForms == { Str("br"), Str("br/"), Str("br /") }

\* C39: the loop iteration at the '>' of a line-break tag in any of the forms
\* <br>, <br/> and <br />, in any letter case, appends exactly one '\n' to the
\* current text
C39_EveryBreakFormAppendsNewline ==
    [][ ( /\ pc = "parse" /\ i <= Len(src) /\ src[i] = ">"
          /\ ps.inTag
          /\ LowerStr(ps.tagName) \in BreakForms )
        => ps'.currentText = Append(ps.currentText, "\n") ]_vars

\* <br/> has the clean tag "br/", which no branch of the dispatch takes: the
\* two x end up next to each other
BreakWithSlashAppendsNothing ==
    /\ pc = "done"
    /\ markup = Str("x<br/>x")
    /\ Len(ps.segments) = 1
    /\ ps.segments[1].text = Str("xx")

\* <br> and <br /> have the clean tag "br", in any letter case
BreakWithSpaceAppendsNewline ==
    /\ pc = "done"
    /\ markup = Str("x<br />x<BR>")
    /\ Len(ps.segments) = 1
    /\ ps.segments[1].text = <<"x", "\n", "x", "\n">>

===========================================================================
